---- MODULE Spec2Model ----
(***************************************************************************)
(* A model of the redscript constant pool (core/src/bundle.rs), of the     *)
(* pool-type cache and the definition builders                             *)
(* (compiler/src/codegen/builders.rs) and of the emission of a compilation *)
(* into the pool (CompilationOutputs::commit, compiler/src/compiler.rs).   *)
(*                                                                         *)
(* A string (redscript::Str) is a sequence of symbols.  A pool index i     *)
(* addresses element i + 1 of a TLA+ sequence (Rust vectors count from 0). *)
(***************************************************************************)
EXTENDS Integers, Sequences, FiniteSets, TLC

VARIABLES
    pc,         \* position of the run: which operation comes next
    pool,       \* the ConstantPool being worked on
    input,      \* codec: the bundle given to ScriptBundle::load; compile: the source files
    output,     \* codec: the bundle written by ScriptBundle::save
    pool2,      \* codec: the pool loaded back from output
    cache,      \* the TypeCache: mangled name -> pool index of the type
    allocated,  \* types: language type -> the index its first alloc_type returned
    handed,     \* the indices that reserve and add_definition have returned
    unit,       \* compile: the Compiler; commit: the CompilationOutputs
    db,         \* commit: the CompilationDb
    wrappers,   \* commit: method id -> the deque of wrapper indices
    pos,        \* commit: the position of the running loop in its list
    linked,     \* commit: the method ids the linkage loop has visited
    hist        \* commit: the indices and pools the loops of an emission saw

codecVars == <<input, output, pool2>>
typeVars == <<cache, allocated, handed>>
commitVars == <<unit, db, wrappers, pos, linked, hist>>
vars == <<pc, pool, input, output, pool2, cache, allocated, handed,
          unit, db, wrappers, pos, linked, hist>>

----------------------------------------------------------------------------
(* Bounds of the model.                                                    *)

MaxBlob == 3        \* symbols in the data blob of an input bundle
MaxEntries == 3     \* entries in the four offset tables together
MaxDefs == 2        \* definition headers of an input bundle

----------------------------------------------------------------------------
(* Program constants.                                                      *)

UNDEFINED == 0
DEFAULT_SOURCE == 1
Header_SIZE == 104
DefinitionHeader_SIZE == 20
U32_SIZE == 4

NUL == "NUL"            \* the terminator of an encoded string
NoBundle == [none |-> TRUE]
NoPool == [none |-> TRUE]
NoCommit == [none |-> TRUE]

----------------------------------------------------------------------------
(* Helpers over sequences and maps.                                        *)

At(seq, i) == seq[i + 1]
Range(seq) == {seq[i] : i \in 1..Len(seq)}
EmptyMap == [x \in {} |-> 0]
MapPut(m, k, v) == [x \in (DOMAIN m) \cup {k} |-> IF x = k THEN v ELSE m[x]]
(* In applied to v: the result of a call is named once, for what follows  *)
(* the call.                                                               *)
Then(v, In(_)) == In(v)

SetMax(S) == CHOOSE x \in S : \A y \in S : y <= x
Min2(a, b) == IF a <= b THEN a ELSE b

RECURSIVE SeqsUpTo(_, _)
SeqsUpTo(S, n) ==
    IF n = 0 THEN {<<>>}
    ELSE LET shorter == SeqsUpTo(S, n - 1)
         IN shorter \cup {Append(s, x) : s \in {t \in shorter : Len(t) = n - 1}, x \in S}

----------------------------------------------------------------------------
(* Definitions (core/src/definition.rs) and their headers.                 *)

Definition_DEFAULT ==
    [name |-> UNDEFINED, parent |-> UNDEFINED, unk1 |-> 0, unk2 |-> 0, unk3 |-> 0,
     value |-> [tag |-> "Type", kind |-> "Prim"]]

DefinitionHeader_DEFAULT ==
    [name |-> UNDEFINED, parent |-> UNDEFINED, offset |-> 0, size |-> 0,
     type_ |-> "Type", unk1 |-> 0, unk2 |-> 0, unk3 |-> 0]

(* AnyDefinition::type_: the tag byte of a definition's value. *)
AnyDefinition_type(value) == value.tag

(* The body of a definition on disk: the value without its tag, which is   *)
(* kept in the header.  One cell of the body region per definition.        *)
AnyDefinition_encode(value) ==
    <<[f \in (DOMAIN value) \ {"tag"} |-> value[f]]>>

AnyDefinition_decode(type_, cell) ==
    [f \in (DOMAIN cell) \cup {"tag"} |-> IF f = "tag" THEN type_ ELSE cell[f]]

----------------------------------------------------------------------------
(* Strings<K> (bundle.rs 406-478).                                         *)

Strings_default == [strings |-> <<>>, mappings |-> EmptyMap]

(* Str::encode / Str::decode: the symbols followed by the terminator.      *)
Str_encode(str) == str \o <<NUL>>

HasStr(blob, offset) == \E k \in (offset + 1)..Len(blob) : blob[k] = NUL

RECURSIVE Str_decode(_, _)
Str_decode(blob, offset) ==
    IF offset >= Len(blob) \/ At(blob, offset) = NUL THEN <<>>
    ELSE <<At(blob, offset)>> \o Str_decode(blob, offset + 1)

(* Strings::decode_from: one string per offset; the reverse map is filled  *)
(* in table order, so a string that occurs twice maps to its last index.   *)
Strings_decode_from(blob, offsets) ==
    LET strings == [i \in 1..Len(offsets) |-> Str_decode(blob, offsets[i])]
    IN [strings |-> strings,
        mappings |-> [s \in Range(strings) |->
                        SetMax({i \in 1..Len(strings) : strings[i] = s}) - 1]]

(* Strings::encoded_offsets: the data-blob offset of every entry. *)
Strings_encoded_offsets(self, str_map) ==
    [i \in 1..Len(self.strings) |-> str_map[self.strings[i]]]

(* DefaultString::DEFAULT (bundle.rs 775-802): an Option, here a sequence  *)
(* of no or one string.                                                    *)
CName_DEFAULT == <<<<"None">>>>
String_DEFAULT == <<>>

(* Strings::get *)
Strings_get(self, index, default) ==
    IF default # <<>> /\ index = UNDEFINED THEN default[1]
    ELSE At(self.strings, index)

(* Strings::add without the lookup in the mappings. *)
Strings_add_AlwaysAppend(self, str, default) ==
    IF default = <<str>> THEN [strings |-> self, idx |-> UNDEFINED]
    ELSE [strings |-> [strings |-> Append(self.strings, str),
                       mappings |-> MapPut(self.mappings, str, Len(self.strings))],
          idx |-> Len(self.strings)]

(* Strings::add: the result is the table after the call and the index. *)
Strings_add(self, str, default) ==
    IF default = <<str>> THEN [strings |-> self, idx |-> UNDEFINED]
    ELSE LET idx == Len(self.strings)
         IN IF str \in DOMAIN self.mappings
            THEN [strings |-> self, idx |-> self.mappings[str]]
            ELSE [strings |-> [strings |-> Append(self.strings, str),
                               mappings |-> MapPut(self.mappings, str, idx)],
                  idx |-> idx]

----------------------------------------------------------------------------
(* ConstantPool (bundle.rs 126-345).                                       *)

ConstantPool_default ==
    [names |-> Strings_default, tweakdb_ids |-> Strings_default,
     resources |-> Strings_default, strings |-> Strings_default,
     definitions |-> <<>>]

ConstantPool_definition(self, index) == At(self.definitions, index)

ConstantPool_def_name_idx(self, index) == ConstantPool_definition(self, index).name

ConstantPool_def_name(self, index) ==
    Strings_get(self.names, ConstantPool_def_name_idx(self, index), CName_DEFAULT)

(* pool.names.add(name): the pool after the call and the name index. *)
ConstantPool_names_add(self, str) ==
    LET r == Strings_add(self.names, str, CName_DEFAULT)
    IN [pool |-> [self EXCEPT !.names = r.strings], idx |-> r.idx]

ConstantPool_add_definition(self, definition) ==
    [pool |-> [self EXCEPT !.definitions = Append(@, definition)],
     idx |-> Len(self.definitions)]

ConstantPool_reserve(self) == ConstantPool_add_definition(self, Definition_DEFAULT)

ConstantPool_put_definition(self, index, definition) ==
    [self EXCEPT !.definitions[index + 1] = definition]

ConstantPool_swap_definition(self, lhs, rhs) ==
    [self EXCEPT !.definitions[lhs + 1] = self.definitions[rhs + 1],
                 !.definitions[rhs + 1] = self.definitions[lhs + 1]]

ConstantPool_rename(self, index, name) ==
    [self EXCEPT !.definitions[index + 1].name = name]

(* complete_function without the loop over the locals. *)
ConstantPool_complete_function_KeepParents(self, index, locals, code) ==
    [self EXCEPT !.definitions[index + 1].value.locals = locals,
                 !.definitions[index + 1].value.code = code]

(* complete_function: every local gets the function as its parent, the     *)
(* function gets the locals and the code.                                  *)
ConstantPool_complete_function(self, index, locals, code) ==
    LET reparented == [i \in 1..Len(self.definitions) |->
                         IF (i - 1) \in Range(locals)
                         THEN [self.definitions[i] EXCEPT !.parent = index]
                         ELSE self.definitions[i]]
    IN [self EXCEPT !.definitions =
           [reparented EXCEPT ![index + 1].value.locals = locals,
                              ![index + 1].value.code = code]]

(* Where the definition bodies start in a bundle file laid out as          *)
(* Header, data, names, tweakdb, resources, definition headers, strings.   *)
BodiesStart(h) ==
    Header_SIZE + h.data.count
    + U32_SIZE * (h.names.count + h.tweakdb_indexes.count + h.resources.count)
    + DefinitionHeader_SIZE * h.definitions.count
    + U32_SIZE * h.strings.count

BodyCell(b, header) == header.offset - BodiesStart(b.header)

(* Definition::decode: seek to the header's offset, decode by type tag. *)
Definition_decode(b, header) ==
    [name |-> header.name, parent |-> header.parent,
     unk1 |-> header.unk1, unk2 |-> header.unk2, unk3 |-> header.unk3,
     value |-> AnyDefinition_decode(header.type_, At(b.bodies, BodyCell(b, header)))]

(* The failures of ConstantPool::decode: a short read of a table, a string *)
(* that runs off the data blob, a body outside the file.                   *)
DecodeOk(b) ==
    /\ b.header.data.count = Len(b.data)
    /\ b.header.names.count = Len(b.names)
    /\ b.header.tweakdb_indexes.count = Len(b.tweakdb_indexes)
    /\ b.header.resources.count = Len(b.resources)
    /\ b.header.definitions.count = Len(b.headers)
    /\ b.header.strings.count = Len(b.strings)
    /\ \A t \in {b.names, b.tweakdb_indexes, b.resources, b.strings} :
          \A i \in 1..Len(t) : HasStr(b.data, t[i])
    /\ \A i \in 2..Len(b.headers) :
          /\ BodyCell(b, b.headers[i]) \in 0..(Len(b.bodies) - 1)
          /\ b.headers[i].size = 1

ConstantPool_decode(b) ==
    [names |-> Strings_decode_from(b.data, b.names),
     tweakdb_ids |-> Strings_decode_from(b.data, b.tweakdb_indexes),
     resources |-> Strings_decode_from(b.data, b.resources),
     strings |-> Strings_decode_from(b.data, b.strings),
     definitions |->
        <<Definition_DEFAULT>> \o
        [i \in 1..(Len(b.headers) - 1) |-> Definition_decode(b, b.headers[i + 1])]]

(* The dedup loop of ConstantPool::encode (bundle.rs 166-181): a string    *)
(* not yet in the map is given the current position of the buffer and is   *)
(* written; a string already there is skipped.                             *)
DedupInsert_NoDedup(st, str) ==
    [map |-> MapPut(st.map, str, Len(st.buffer)),
     buffer |-> st.buffer \o Str_encode(str)]

DedupInsert_OffsetAfter(st, str) ==
    IF str \in DOMAIN st.map THEN st
    ELSE [map |-> MapPut(st.map, str, Len(st.buffer) + Len(Str_encode(str))),
          buffer |-> st.buffer \o Str_encode(str)]

DedupInsert(st, str) ==
    IF str \in DOMAIN st.map THEN st
    ELSE [map |-> MapPut(st.map, str, Len(st.buffer)),
          buffer |-> st.buffer \o Str_encode(str)]

RECURSIVE DedupLoop(_, _, _)
DedupLoop(strs, i, st) ==
    IF i > Len(strs) THEN st
    ELSE DedupLoop(strs, i + 1, DedupInsert(st, strs[i]))

TableHeader_new(count, offset) == [offset |-> offset, count |-> count]

(* DefinitionHeader::encode_definition (bundle.rs 549-567). *)
DefinitionHeader_encode_definition(offset, definition) ==
    [name |-> definition.name, parent |-> definition.parent,
     offset |-> offset, size |-> Len(AnyDefinition_encode(definition.value)),
     type_ |-> AnyDefinition_type(definition.value),
     unk1 |-> definition.unk1, unk2 |-> definition.unk2, unk3 |-> definition.unk3]

(* ConstantPool::encode (bundle.rs 165-243) with the output positioned at  *)
(* start.  The crc32 fields of the headers are not modelled.               *)
ConstantPool_encode(self, start) ==
    LET chain == self.names.strings \o self.tweakdb_ids.strings
                 \o self.resources.strings \o self.strings.strings
        dd == DedupLoop(chain, 1, [map |-> EmptyMap, buffer |-> <<>>])
        data == TableHeader_new(Len(dd.buffer), start)
        names_pos == start + Len(dd.buffer)
        name_offsets == Strings_encoded_offsets(self.names, dd.map)
        tweakdb_pos == names_pos + U32_SIZE * Len(name_offsets)
        tweakdb_offsets == Strings_encoded_offsets(self.tweakdb_ids, dd.map)
        resources_pos == tweakdb_pos + U32_SIZE * Len(tweakdb_offsets)
        resource_offsets == Strings_encoded_offsets(self.resources, dd.map)
        def_header_pos == resources_pos + U32_SIZE * Len(resource_offsets)
        def_header_size == DefinitionHeader_SIZE * Len(self.definitions)
        strings_pos == def_header_pos + def_header_size
        string_offsets == Strings_encoded_offsets(self.strings, dd.map)
        bodies_pos == strings_pos + U32_SIZE * Len(string_offsets)
        n == Len(self.definitions)
        \* every body of this model is one cell long
        headers == <<DefinitionHeader_DEFAULT>> \o
                   [i \in 1..(n - 1) |->
                      DefinitionHeader_encode_definition(bodies_pos + (i - 1),
                                                         self.definitions[i + 1])]
        bodies == [i \in 1..(n - 1) |->
                      AnyDefinition_encode(self.definitions[i + 1].value)[1]]
    IN [header |->
           [data |-> data,
            names |-> TableHeader_new(Len(self.names.strings), names_pos),
            tweakdb_indexes |-> TableHeader_new(Len(self.tweakdb_ids.strings), tweakdb_pos),
            resources |-> TableHeader_new(Len(self.resources.strings), resources_pos),
            strings |-> TableHeader_new(Len(self.strings.strings), strings_pos),
            definitions |-> TableHeader_new(n, def_header_pos)],
        data |-> dd.buffer,
        names |-> name_offsets,
        tweakdb_indexes |-> tweakdb_offsets,
        resources |-> resource_offsets,
        headers |-> headers,
        strings |-> string_offsets,
        bodies |-> bodies]
----------------------------------------------------------------------------
(* ScriptBundle::load and ScriptBundle::save (bundle.rs 24-40).            *)

Header_MAGIC == 1396983122      \* 0x5344_4552

(* Header::decode fails on a wrong magic number, ConstantPool::decode on   *)
(* a short read.                                                           *)
LoadOk(b) == b.header.magic = Header_MAGIC /\ DecodeOk(b)

ScriptBundle_load(b) == [header |-> b.header, pool |-> ConstantPool_decode(b)]

(* save seeks to Header::SIZE, encodes the pool, then writes the header    *)
(* that encode returns (the old header with the new table headers).        *)
ScriptBundle_save(self) ==
    LET enc == ConstantPool_encode(self.pool, Header_SIZE)
    IN [enc EXCEPT !.header =
           [magic |-> Header_MAGIC, version |-> self.header.version,
            data |-> enc.header.data, names |-> enc.header.names,
            tweakdb_indexes |-> enc.header.tweakdb_indexes,
            resources |-> enc.header.resources,
            strings |-> enc.header.strings,
            definitions |-> enc.header.definitions]]

----------------------------------------------------------------------------
(* The input bundles of the codec runs.                                    *)

Alphabet == {"a"}
TableIds == 1..4        \* names, tweakdb ids, resources, strings
Blobs == {d \in SeqsUpTo(Alphabet \cup {NUL}, MaxBlob) : d = <<>> \/ d[Len(d)] = NUL}

(* Offset-table entries as (table, offset) pairs in table order: at most  *)
(* n entries, of tables lo and later, with offsets in offs.                *)
RECURSIVE SortedEntries(_, _, _)
SortedEntries(n, lo, offs) ==
    IF n = 0 THEN {<<>>}
    ELSE {<<>>} \cup
         UNION {{<<<<t, o>>>> \o rest : o \in offs, rest \in SortedEntries(n - 1, t, offs)} :
                t \in {u \in TableIds : u >= lo}}

EntryLists(data) == SortedEntries(MaxEntries, 1, 0..(Len(data) - 1))

RECURSIVE TableOf(_, _)
TableOf(e, t) ==
    IF e = <<>> THEN <<>>
    ELSE IF e[1][1] = t THEN <<e[1][2]>> \o TableOf(Tail(e), t)
    ELSE TableOf(Tail(e), t)

FixedCells == <<[kind |-> "Prim"], [kind |-> "Class"], [kind |-> "Ref"], [kind |-> "Array"]>>
Bodies == SubSeq(FixedCells, 1, MaxDefs)

(* A definition header of an input bundle before its offset is known. *)
RawHeaders ==
    [name : 0..1, parent : 0..1, cell : 0..MaxDefs, type_ : {"Type", "Function"}]

MkHeaders(raw, start) ==
    [i \in 1..Len(raw) |->
        [name |-> raw[i].name, parent |-> raw[i].parent,
         offset |-> start + raw[i].cell, size |-> 1, type_ |-> raw[i].type_,
         unk1 |-> raw[i].name, unk2 |-> 2 * raw[i].name, unk3 |-> 3 * raw[i].name]]

MkBundle(magic, data, e, slot0, raw) ==
    LET h == [magic |-> magic, version |-> 14,
              data |-> TableHeader_new(Len(data), Header_SIZE),
              names |-> TableHeader_new(Len(TableOf(e, 1)), 0),
              tweakdb_indexes |-> TableHeader_new(Len(TableOf(e, 2)), 0),
              resources |-> TableHeader_new(Len(TableOf(e, 3)), 0),
              strings |-> TableHeader_new(Len(TableOf(e, 4)), 0),
              definitions |-> TableHeader_new(Len(slot0) + Len(raw), 0)]
    IN [header |-> h, data |-> data,
        names |-> TableOf(e, 1), tweakdb_indexes |-> TableOf(e, 2),
        resources |-> TableOf(e, 3), strings |-> TableOf(e, 4),
        headers |-> MkHeaders(slot0 \o raw, BodiesStart(h)),
        bodies |-> Bodies]

GarbageSlot0 == [name |-> 1, parent |-> 1, cell |-> 0, type_ |-> "Function"]
FixedRaw == <<[name |-> 1, parent |-> 0, cell |-> 0, type_ |-> "Function"]>>

(* Every string layout with one definition. *)
StringBundle(d, e) == MkBundle(Header_MAGIC, d, e, <<GarbageSlot0>>, FixedRaw)

(* Every definition layout with three strings. *)
DefinitionBundle(raw) ==
    MkBundle(Header_MAGIC, <<"a", NUL>>, <<<<1, 0>>, <<1, 1>>, <<4, 0>>>>, <<GarbageSlot0>>, raw)

(* A bundle without any definition header, and the files that load         *)
(* rejects: a string that runs off the data blob, a wrong magic number.    *)
OtherBundles ==
    {MkBundle(Header_MAGIC, <<"a", NUL>>, <<<<1, 0>>>>, <<>>, <<>>),
     MkBundle(Header_MAGIC, <<"a">>, <<<<1, 0>>>>, <<GarbageSlot0>>, FixedRaw),
     MkBundle(0, <<"a", NUL>>, <<<<1, 0>>>>, <<GarbageSlot0>>, FixedRaw)}

----------------------------------------------------------------------------
(* Codec runs: load a bundle, save it, load the saved bundle.              *)

InitCodec ==
    /\ pc = "start"
    /\ \/ \E d \in Blobs : \E e \in EntryLists(d) : input = StringBundle(d, e)
       \/ \E raw \in SeqsUpTo(RawHeaders, MaxDefs) : input = DefinitionBundle(raw)
       \/ input \in OtherBundles
    /\ pool = NoPool
    /\ output = NoBundle
    /\ pool2 = NoPool
    /\ cache = EmptyMap
    /\ allocated = EmptyMap
    /\ handed = {}
    /\ unit = NoCommit /\ db = NoCommit /\ wrappers = EmptyMap
    /\ pos = 0 /\ linked = {} /\ hist = NoCommit

Load ==
    /\ pc = "start"
    /\ IF LoadOk(input)
       THEN pool' = ScriptBundle_load(input).pool /\ pc' = "loaded"
       ELSE pool' = pool /\ pc' = "rejected"
    /\ UNCHANGED <<input, output, pool2, typeVars, commitVars>>

Save ==
    /\ pc = "loaded"
    /\ output' = ScriptBundle_save([header |-> input.header, pool |-> pool])
    /\ pc' = "saved"
    /\ UNCHANGED <<pool, input, pool2, typeVars, commitVars>>

Reload ==
    /\ pc = "saved"
    /\ IF LoadOk(output)
       THEN pool2' = ScriptBundle_load(output).pool /\ pc' = "reloaded"
       ELSE pool2' = pool2 /\ pc' = "reload_failed"
    /\ UNCHANGED <<pool, input, output, typeVars, commitVars>>

NextCodec == Load \/ Save \/ Reload

SpecCodec == InitCodec /\ [][NextCodec]_vars

----------------------------------------------------------------------------
(* Claims about the codec.                                                 *)

TableNames == {"names", "tweakdb_ids", "resources", "strings"}

(* C1: for every bundle that load accepts, saving the loaded pool and      *)
(* loading the saved bytes succeeds and yields the same number of          *)
(* definitions, the same name, parent and value at every index, and the    *)
(* same string at every index of each of the four string tables.           *)
C1_RoundTrip ==
    /\ pc # "reload_failed"
    /\ pc = "reloaded" =>
        /\ Len(pool2.definitions) = Len(pool.definitions)
        /\ \A i \in 1..Len(pool.definitions) :
              /\ pool2.definitions[i].name = pool.definitions[i].name
              /\ pool2.definitions[i].parent = pool.definitions[i].parent
              /\ pool2.definitions[i].value = pool.definitions[i].value
        /\ \A t \in TableNames : pool2[t].strings = pool[t].strings

(* A reloaded bundle with two different definitions after slot 0, a       *)
(* garbage header in slot 0, and a string that two tables share.           *)
C1_Witness ==
    /\ pc = "reloaded"
    /\ Len(pool.definitions) >= 3
    /\ input.headers[1] # DefinitionHeader_DEFAULT
    /\ pool.definitions[2].value # pool.definitions[3].value
    /\ Len(pool.names.strings) = 2
    /\ pool.names.strings[1] # pool.names.strings[2]
    /\ Len(pool.strings.strings) = 1
    /\ pool.strings.strings[1] = pool.names.strings[1]

(* The strings written into a data blob, in order. *)
RECURSIVE SplitBlob(_, _)
SplitBlob(blob, offset) ==
    IF offset >= Len(blob) THEN <<>>
    ELSE LET s == Str_decode(blob, offset)
         IN <<s>> \o SplitBlob(blob, offset + Len(s) + 1)

AllStrings(p) == UNION {Range(p[t].strings) : t \in TableNames}
OffsetTable(b, t) ==
    CASE t = "names" -> b.names [] t = "tweakdb_ids" -> b.tweakdb_indexes
      [] t = "resources" -> b.resources [] t = "strings" -> b.strings

(* C10: encode writes every distinct string of the four tables exactly     *)
(* once into the data blob (and nothing else), and all occurrences of a    *)
(* string, in one table or in several, get the same data-blob offset,      *)
(* which is where that string was written.                                 *)
C10_Dedup ==
    pc \in {"saved", "reloaded"} =>
        LET written == SplitBlob(output.data, 0)
        IN /\ \A s \in AllStrings(pool) :
                 Cardinality({k \in 1..Len(written) : written[k] = s}) = 1
           /\ Range(written) = AllStrings(pool)
           /\ \A t \in TableNames, u \in TableNames :
                 \A i \in 1..Len(pool[t].strings), j \in 1..Len(pool[u].strings) :
                    pool[t].strings[i] = pool[u].strings[j] =>
                       OffsetTable(output, t)[i] = OffsetTable(output, u)[j]
           /\ \A t \in TableNames : \A i \in 1..Len(pool[t].strings) :
                 Str_decode(output.data, OffsetTable(output, t)[i]) = pool[t].strings[i]

(* A saved pool in which one string occurs twice in the names table and    *)
(* once more in another table.                                             *)
C10_Witness ==
    /\ pc = "saved"
    /\ Len(pool.names.strings) = 2
    /\ pool.names.strings[1] = pool.names.strings[2]
    /\ \E t \in TableNames \ {"names"} :
          /\ Len(pool[t].strings) = 1
          /\ pool[t].strings[1] = pool.names.strings[1]

----------------------------------------------------------------------------
(* Language types and the type repository.  A name is a sequence of        *)
(* tokens; the colon of a mangled name is a token of its own.              *)

MaxAllocs == 2      \* alloc_type calls with distinct types in one run

predef_REF == "ref"
predef_WREF == "wref"
predef_ARRAY == "array"
predef_SCRIPT_REF == "script_ref"
predef_ISCRIPTABLE == "IScriptable"

Type_Prim(prim) == [k |-> "Prim", id |-> prim, args |-> <<>>]
Type_Data(id, args) == [k |-> "Data", id |-> id, args |-> args]
Type_Var == [k |-> "Var", id |-> "T", args |-> <<>>]
Type_Top == [k |-> "Top", id |-> "Top", args |-> <<>>]
Type_Bottom == [k |-> "Bottom", id |-> "Bottom", args |-> <<>>]

DataType_Class(is_struct) == [k |-> "Class", is_struct |-> is_struct]
DataType_Builtin == [k |-> "Builtin", is_struct |-> FALSE]

(* The repository of a compilation: the four builtins, the root class, a   *)
(* class and a struct.                                                     *)
TypeRepo ==
    [id \in {predef_REF, predef_WREF, predef_ARRAY, predef_SCRIPT_REF,
             predef_ISCRIPTABLE, "C", "S"} |->
        IF id \in {predef_REF, predef_WREF, predef_ARRAY, predef_SCRIPT_REF}
        THEN DataType_Builtin
        ELSE DataType_Class(id = "S")]

TypeRepo_get_type(repo, id) == repo[id]

(* Definition::type_ and the PoolType variants. *)
PoolType_Prim == [tag |-> "Type", kind |-> "Prim"]
PoolType_Class == [tag |-> "Type", kind |-> "Class"]
PoolType_Wrap(kind, inner) == [tag |-> "Type", kind |-> kind, inner |-> inner]

Definition_type_(name, type) ==
    [name |-> name, parent |-> UNDEFINED, unk1 |-> 0, unk2 |-> 0, unk3 |-> 0,
     value |-> type]

RECURSIVE serialize_type(_, _, _)
serialize_type(typ, repo, unwrapped) ==
    IF typ.k = "Data"
    THEN LET dt == TypeRepo_get_type(repo, typ.id)
         IN IF typ.id = predef_REF \/ typ.id = predef_WREF
            THEN <<typ.id, ":">> \o serialize_type(typ.args[1], repo, TRUE)
            ELSE IF dt.k = "Builtin" /\ typ.args # <<>>
            THEN <<typ.id, ":">> \o serialize_type(typ.args[1], repo, FALSE)
            ELSE IF dt.k = "Class" /\ ~dt.is_struct /\ ~unwrapped
            THEN <<"ref", ":", typ.id>>
            ELSE <<typ.id>>
    ELSE IF typ.k = "Prim" THEN <<typ.id>>
    ELSE IF unwrapped THEN <<"IScriptable">>
    ELSE <<"ref", ":", "IScriptable">>

(* self.types.insert(name, idx), left out. *)
TypeCache_types_insert_Forget(self, mangled, idx) == self

(* self.types.insert(name, idx) *)
TypeCache_types_insert(self, mangled, idx) == MapPut(self, mangled, idx)

TypeCache_default == EmptyMap

TypeCache_add(self, mangled, idx) == TypeCache_types_insert(self, mangled, idx)

(* alloc_type and its helpers: the result is the cache and the pool after  *)
(* the call and the index returned.                                        *)
RECURSIVE TypeCache_alloc_type(_, _, _, _)
RECURSIVE TypeCache_alloc_type_unwrapped(_, _, _, _)
RECURSIVE TypeCache_add_type(_, _, _, _, _)

TypeCache_alloc_type(self, typ, repo, p) ==
    IF \/ typ.k \in {"Var", "Bottom", "Top"}
       \/ /\ typ.k = "Data"
          /\ TypeRepo_get_type(repo, typ.id).k = "Class"
          /\ ~TypeRepo_get_type(repo, typ.id).is_struct
    THEN TypeCache_alloc_type_unwrapped(self, Type_Data(predef_REF, <<typ>>), repo, p)
    ELSE TypeCache_alloc_type_unwrapped(self, typ, repo, p)

TypeCache_alloc_type_unwrapped(self, typ, repo, p) ==
    LET name == serialize_type(typ, repo, TRUE)
    IN IF name \in DOMAIN self
       THEN [cache |-> self, pool |-> p, idx |-> self[name]]
       ELSE TypeCache_add_type(self, name, typ, repo, p)

TypeCache_add_type(self, name, typ, repo, p) ==
    LET builtin == /\ typ.k = "Data"
                   /\ TypeRepo_get_type(repo, typ.id).k = "Builtin"
                   /\ Len(typ.args) = 1
        pool_type(inner_idx) ==
            IF builtin
            THEN PoolType_Wrap(CASE typ.id = predef_REF -> "Ref"
                                 [] typ.id = predef_WREF -> "WeakRef"
                                 [] typ.id = predef_ARRAY -> "Array"
                                 [] typ.id = predef_SCRIPT_REF -> "ScriptRef",
                               inner_idx)
            ELSE IF typ.k = "Prim" THEN PoolType_Prim
            ELSE PoolType_Class
    IN Then(IF ~builtin THEN [cache |-> self, pool |-> p, idx |-> UNDEFINED]
            ELSE IF typ.id \in {predef_REF, predef_WREF}
            THEN TypeCache_alloc_type_unwrapped(self, typ.args[1], repo, p)
            ELSE TypeCache_alloc_type(self, typ.args[1], repo, p),
            LAMBDA inner :
       Then(ConstantPool_names_add(inner.pool, name),
            LAMBDA named :
       Then(ConstantPool_add_definition(named.pool,
                Definition_type_(named.idx, pool_type(inner.idx))),
            LAMBDA added :
       [cache |-> TypeCache_types_insert(inner.cache, name, added.idx),
        pool |-> added.pool,
        idx |-> added.idx])))

(* CompilationResources::load, the type cache: every Type definition of    *)
(* the pool under its name, slot 0 skipped, a later one replacing an       *)
(* earlier one of the same name.                                           *)
CompilationResources_load_type_cache(p) ==
    LET n == Len(p.definitions)
        upTo[i \in 0..(n - 1)] ==
            IF i = 0 THEN TypeCache_default
            ELSE IF ConstantPool_definition(p, i).value.tag = "Type"
            THEN TypeCache_add(upTo[i - 1], ConstantPool_def_name(p, i), i)
            ELSE upTo[i - 1]
    IN IF n = 0 THEN TypeCache_default ELSE upTo[n - 1]

----------------------------------------------------------------------------
(* A predefined bundle: class C with one method M of two parameters and    *)
(* two locals, and the types Int32, C and ref:C.  The pool a compilation   *)
(* starts from is what load makes of the saved bundle.  An Option is a     *)
(* sequence of no or one element.                                          *)

FunctionFlags(is_callback, is_static) ==
    [is_callback |-> is_callback, is_static |-> is_static]

Instr_Local(idx) == [op |-> "Local", arg |-> idx]
Instr_Call(idx) == [op |-> "Call", arg |-> idx]
Instr_Body(id) == [op |-> "Body", arg |-> id]

Definition_new(name, parent, value) ==
    [name |-> name, parent |-> parent, unk1 |-> 0, unk2 |-> 0, unk3 |-> 0,
     value |-> value]

PoolClass(flags, base, methods, fields) ==
    [tag |-> "Class", flags |-> flags, base |-> base, methods |-> methods,
     fields |-> fields]

PoolFunction(flags, return_type, base_method, parameters, locals, code) ==
    [tag |-> "Function", flags |-> flags, return_type |-> return_type,
     base_method |-> base_method, parameters |-> parameters, locals |-> locals,
     code |-> code]

PoolParameter(type_) == [tag |-> "Parameter", type_ |-> type_]
PoolLocal(type_) == [tag |-> "Local", type_ |-> type_]

Definition_class(name, def) == Definition_new(name, UNDEFINED, def)
Definition_function(name, parent, def) == Definition_new(name, parent, def)
Definition_param(name, parent, def) == Definition_new(name, parent, def)
Definition_local(name, parent, def) == Definition_new(name, parent, def)

PredefNames ==
    <<<<"None">>, <<"C">>, <<"M">>, <<"x">>, <<"y">>, <<"Int32">>, <<"l">>,
      <<"ref", ":", "C">>, <<"k">>>>

PredefDefinitions(is_callback) ==
    <<Definition_DEFAULT,
      Definition_class(1, PoolClass([is_struct |-> FALSE], UNDEFINED, <<2>>, <<>>)),
      Definition_function(2, 1,
          PoolFunction(FunctionFlags(is_callback, FALSE), <<>>, <<>>,
                       <<3, 4>>, <<6, 9>>,
                       <<Instr_Local(6), Instr_Local(9), Instr_Body(0), Instr_Local(6)>>)),
      Definition_param(3, 2, PoolParameter(5)),
      Definition_param(4, 2, PoolParameter(5)),
      Definition_type_(5, PoolType_Prim),
      Definition_local(6, 2, PoolLocal(5)),
      Definition_type_(1, PoolType_Class),
      Definition_type_(7, PoolType_Wrap("Ref", 7)),
      Definition_local(8, 2, PoolLocal(5))>>

PredefHeader ==
    [magic |-> Header_MAGIC, version |-> 0,
     data |-> TableHeader_new(0, 0), names |-> TableHeader_new(0, 0),
     tweakdb_indexes |-> TableHeader_new(0, 0), resources |-> TableHeader_new(0, 0),
     strings |-> TableHeader_new(0, 0), definitions |-> TableHeader_new(0, 0)]

PredefBundle(is_callback) ==
    ScriptBundle_save(
        [header |-> PredefHeader,
         pool |-> [definitions |-> PredefDefinitions(is_callback),
                   names |-> [strings |-> PredefNames, mappings |-> EmptyMap],
                   tweakdb_ids |-> Strings_default,
                   resources |-> Strings_default,
                   strings |-> Strings_default]])

LoadedPool(is_callback) == ScriptBundle_load(PredefBundle(is_callback)).pool

----------------------------------------------------------------------------
(* Type allocation runs: alloc_type calls on a pool and a cache.           *)

Atoms ==
    {Type_Prim("Int32"), Type_Data("C", <<>>), Type_Data("S", <<>>),
     Type_Var, Type_Top, Type_Bottom}

Wrappings(T) ==
    {Type_Data(id, <<t>>) :
        id \in {predef_REF, predef_WREF, predef_ARRAY, predef_SCRIPT_REF}, t \in T}

Types == Atoms \cup Wrappings(Atoms) \cup Wrappings(Wrappings({Type_Data("C", <<>>)}))

(* The indices add_definition returns while a pool grows from one length   *)
(* to another.                                                             *)
HandedBetween(before, after) ==
    Len(before.definitions)..(Len(after.definitions) - 1)

InitTypes ==
    /\ pc = "types"
    /\ \/ pool = ConstantPool_default /\ cache = TypeCache_default
       \/ pool = LoadedPool(FALSE) /\ cache = TypeCache_default
       \/ pool = LoadedPool(FALSE) /\ cache = CompilationResources_load_type_cache(pool)
    /\ input = NoBundle
    /\ output = NoBundle
    /\ pool2 = NoPool
    /\ allocated = EmptyMap
    /\ handed = {}
    /\ unit = NoCommit /\ db = NoCommit /\ wrappers = EmptyMap
    /\ pos = 0 /\ linked = {} /\ hist = NoCommit

AllocType ==
    /\ pc = "types"
    /\ \E typ \in Types :
          /\ typ \in DOMAIN allocated \/ Cardinality(DOMAIN allocated) < MaxAllocs
          /\ LET r == TypeCache_alloc_type(cache, typ, TypeRepo, pool)
             IN /\ pool' = r.pool
                /\ cache' = r.cache
                /\ allocated' = IF typ \in DOMAIN allocated THEN allocated
                                ELSE MapPut(allocated, typ, r.idx)
                /\ handed' = handed \cup HandedBetween(pool, r.pool)
    /\ UNCHANGED <<pc, codecVars, commitVars>>

NextTypes == AllocType

SpecTypes == InitTypes /\ [][NextTypes]_vars

----------------------------------------------------------------------------
(* Claims about type allocation.                                           *)

(* C8: alloc_type is idempotent.  For every type that has been allocated,  *)
(* in whatever pool and cache the run started from and whatever was        *)
(* allocated since, one more alloc_type of that type returns the index the *)
(* first call returned and adds no definition and no name to the pool (and *)
(* leaves the cache as it is).                                             *)
C8_Idempotent ==
    pc = "types" =>
        \A typ \in DOMAIN allocated :
            LET r == TypeCache_alloc_type(cache, typ, TypeRepo, pool)
            IN /\ r.idx = allocated[typ]
               /\ r.pool.definitions = pool.definitions
               /\ r.pool.names = pool.names
               /\ r.cache = cache

(* Two types have been allocated, one of them array<C>, whose allocation   *)
(* made the Array entry, the Ref entry under it and the Class entry under  *)
(* that.                                                                   *)
C8_Witness ==
    /\ pc = "types"
    /\ Cardinality(DOMAIN allocated) = 2
    /\ LET arr == Type_Data(predef_ARRAY, <<Type_Data("C", <<>>)>>)
       IN /\ arr \in DOMAIN allocated
          /\ ConstantPool_definition(pool, allocated[arr]).value.kind = "Array"
          /\ {allocated[arr],
              ConstantPool_definition(pool, allocated[arr]).value.inner} \subseteq handed
          /\ Cardinality(handed) >= 3

(* The canonical name of a type, in wrapped and in unwrapped form. *)
RECURSIVE CanonicalName(_, _)
CanonicalName(typ, wrapped) ==
    CASE typ.k = "Prim" -> <<typ.id>>
      [] typ.k \in {"Var", "Top", "Bottom"} ->
            IF wrapped THEN <<"ref", ":", "IScriptable">> ELSE <<"IScriptable">>
      [] typ.k = "Data" /\ typ.id \in {predef_REF, predef_WREF} ->
            <<typ.id, ":">> \o CanonicalName(typ.args[1], FALSE)
      [] typ.k = "Data" /\ typ.id \in {predef_ARRAY, predef_SCRIPT_REF} ->
            <<typ.id, ":">> \o CanonicalName(typ.args[1], TRUE)
      [] typ.k = "Data" /\ typ.id = "S" -> <<typ.id>>
      [] OTHER -> IF wrapped THEN <<"ref", ":", typ.id>> ELSE <<typ.id>>

(* The kind of the pool entry a type is allocated as. *)
CanonicalKind(typ) ==
    CASE typ.k = "Prim" -> "Prim"
      [] typ.k \in {"Var", "Top", "Bottom"} -> "Ref"
      [] typ.k = "Data" /\ typ.id = predef_REF -> "Ref"
      [] typ.k = "Data" /\ typ.id = predef_WREF -> "WeakRef"
      [] typ.k = "Data" /\ typ.id = predef_ARRAY -> "Array"
      [] typ.k = "Data" /\ typ.id = predef_SCRIPT_REF -> "ScriptRef"
      [] typ.k = "Data" /\ typ.id = "S" -> "Class"
      [] OTHER -> "Ref"

KindPrefix ==
    [kind \in {"Ref", "WeakRef", "Array", "ScriptRef"} |->
        CASE kind = "Ref" -> predef_REF
          [] kind = "WeakRef" -> predef_WREF
          [] kind = "Array" -> predef_ARRAY
          [] kind = "ScriptRef" -> predef_SCRIPT_REF]

(* A Ref, WeakRef, Array or ScriptRef entry is named prefix:rest and its   *)
(* inner index is an entry named rest.                                     *)
InnerIsNamedAfterColon(p, i) ==
    LET def == ConstantPool_definition(p, i)
        name == ConstantPool_def_name(p, i)
    IN (def.value.tag = "Type" /\ def.value.kind \in DOMAIN KindPrefix) =>
          /\ Len(name) >= 3
          /\ name[1] = KindPrefix[def.value.kind]
          /\ name[2] = ":"
          /\ def.value.inner \in 0..(Len(p.definitions) - 1)
          /\ ConstantPool_definition(p, def.value.inner).value.tag = "Type"
          /\ ConstantPool_def_name(p, def.value.inner) = SubSeq(name, 3, Len(name))

(* C9: the entry alloc_type returns for a type carries the type's          *)
(* canonical wrapped name and the matching kind, a class is a Ref whose    *)
(* inner entry is the Class entry named by the class id, and the inner     *)
(* index of every Ref, WeakRef, Array and ScriptRef entry of the pool is   *)
(* the entry named by the part of the name after the first colon.          *)
C9_CanonicalNames ==
    pc = "types" =>
        /\ \A typ \in DOMAIN allocated :
              LET def == ConstantPool_definition(pool, allocated[typ])
              IN /\ ConstantPool_def_name(pool, allocated[typ]) = CanonicalName(typ, TRUE)
                 /\ def.value.tag = "Type"
                 /\ def.value.kind = CanonicalKind(typ)
                 /\ (typ.k = "Data" /\ typ.id = "C") =>
                       /\ ConstantPool_definition(pool, def.value.inner).value.kind = "Class"
                       /\ ConstantPool_def_name(pool, def.value.inner) = <<typ.id>>
        /\ \A i \in 0..(Len(pool.definitions) - 1) : InnerIsNamedAfterColon(pool, i)

(* C2: once reserve or add_definition has been called on a pool that was   *)
(* decoded or default-constructed, slot 0 holds the default Definition and *)
(* index 0 is not among the indices the calls returned.                    *)
C2_SlotZero ==
    handed # {} =>
        /\ ConstantPool_definition(pool, 0) = Definition_DEFAULT
        /\ UNDEFINED \notin handed

----------------------------------------------------------------------------
(* The builders (builders.rs).  A commit returns the pool and the cache    *)
(* after the call and the index of the committed definition.               *)

PoolField(type_) == [tag |-> "Field", type_ |-> type_]
Definition_field(name, parent, def) == Definition_new(name, parent, def)

Prim_Unit == Type_Prim("Unit")
Prim_Void == Type_Prim("Void")

ParamBuilder_new(name, typ) == [name |-> name, typ |-> typ]

ParamBuilder_renamed(self, name) == [self EXCEPT !.name = name]

ParamBuilder_commit(self, parent, repo, p, c) ==
    Then(ConstantPool_names_add(p, self.name),
         LAMBDA named :
    Then(TypeCache_alloc_type(c, self.typ, repo, named.pool),
         LAMBDA type_ :
    Then(ConstantPool_add_definition(type_.pool,
             Definition_param(named.idx, parent, PoolParameter(type_.idx))),
         LAMBDA added :
    [pool |-> added.pool, cache |-> type_.cache, idx |-> added.idx])))

LocalBuilder_new(name, typ) == [name |-> name, typ |-> typ]

LocalBuilder_commit(self, repo, p, c) ==
    Then(ConstantPool_names_add(p, self.name),
         LAMBDA named :
    Then(TypeCache_alloc_type(c, self.typ, repo, named.pool),
         LAMBDA type_ :
    Then(ConstantPool_add_definition(type_.pool,
             Definition_local(named.idx, UNDEFINED, PoolLocal(type_.idx))),
         LAMBDA added :
    [pool |-> added.pool, cache |-> type_.cache, idx |-> added.idx])))

FieldBuilder_new(name, typ) == [name |-> name, typ |-> typ]

FieldBuilder_commit(self, parent, repo, p, c) ==
    Then(ConstantPool_names_add(p, self.name),
         LAMBDA named :
    Then(TypeCache_alloc_type(c, self.typ, repo, named.pool),
         LAMBDA type_ :
    Then(ConstantPool_add_definition(type_.pool,
             Definition_field(named.idx, parent, PoolField(type_.idx))),
         LAMBDA added :
    [pool |-> added.pool, cache |-> type_.cache, idx |-> added.idx])))

(* The .map(commit).collect() loops: st is the pool, the cache and the     *)
(* indices collected so far.                                               *)
RECURSIVE CommitParams(_, _, _, _)
CommitParams(params, parent, repo, st) ==
    IF params = <<>> THEN st
    ELSE Then(ParamBuilder_commit(Head(params), parent, repo, st.pool, st.cache),
              LAMBDA r :
         CommitParams(Tail(params), parent, repo,
             [pool |-> r.pool, cache |-> r.cache, idxs |-> Append(st.idxs, r.idx)]))

RECURSIVE CommitLocals(_, _, _)
CommitLocals(locals, repo, st) ==
    IF locals = <<>> THEN st
    ELSE Then(LocalBuilder_commit(Head(locals), repo, st.pool, st.cache),
              LAMBDA r :
         CommitLocals(Tail(locals), repo,
             [pool |-> r.pool, cache |-> r.cache, idxs |-> Append(st.idxs, r.idx)]))

RECURSIVE CommitFields(_, _, _, _)
CommitFields(fields, parent, repo, st) ==
    IF fields = <<>> THEN st
    ELSE Then(FieldBuilder_commit(Head(fields), parent, repo, st.pool, st.cache),
              LAMBDA r :
         CommitFields(Tail(fields), parent, repo,
             [pool |-> r.pool, cache |-> r.cache, idxs |-> Append(st.idxs, r.idx)]))

FunctionBuilder_new(flags, name, return_type, params, base) ==
    [flags |-> flags, name |-> name, return_type |-> return_type, params |-> params,
     locals |-> <<>>, body |-> <<>>, base |-> base, is_wrapper |-> FALSE]

FunctionBuilder_with_wrapper_flag(self) == [self EXCEPT !.is_wrapper = TRUE]

(* The callback flag of a committed function, copied from the builder      *)
(* whether or not it is a wrapper.                                         *)
CommittedCallback_KeepOnWrapper(self) == self.flags.is_callback

(* self.flags.is_callback() && !self.is_wrapper *)
CommittedCallback(self) == self.flags.is_callback /\ ~self.is_wrapper

FunctionBuilder_commit(self, parent, repo, p, c) ==
    LET rename_param ==
            IF self.base # <<>> /\ self.flags.is_callback
            THEN LET parameters == ConstantPool_definition(p, self.base[1]).value.parameters
                 IN IF parameters = <<>> THEN <<>>
                    ELSE <<ConstantPool_def_name(p, parameters[1])>>
            ELSE <<>>
        builders ==
            IF rename_param # <<>>
            THEN [i \in DOMAIN self.params |->
                     ParamBuilder_renamed(self.params[i], rename_param[1])]
            ELSE self.params
        flags == [self.flags EXCEPT !.is_callback = CommittedCallback(self)]
    IN Then(ConstantPool_reserve(p),
            LAMBDA reserved :
       Then(ConstantPool_names_add(reserved.pool, self.name),
            LAMBDA named :
       Then(IF self.return_type = Prim_Unit
            THEN [pool |-> named.pool, cache |-> c, idx |-> UNDEFINED]
            ELSE TypeCache_alloc_type(c, self.return_type, repo, named.pool),
            LAMBDA return_type :
       Then(CommitParams(builders, reserved.idx, repo,
                [pool |-> return_type.pool, cache |-> return_type.cache,
                 idxs |-> <<>>]),
            LAMBDA parameters :
       Then(CommitLocals(self.locals, repo,
                [pool |-> parameters.pool, cache |-> parameters.cache,
                 idxs |-> <<>>]),
            LAMBDA locals :
       [pool |-> ConstantPool_put_definition(locals.pool, reserved.idx,
                    Definition_function(named.idx, parent,
                        PoolFunction(flags,
                                     IF self.return_type = Prim_Unit THEN <<>>
                                     ELSE <<return_type.idx>>,
                                     self.base, parameters.idxs, locals.idxs,
                                     self.body))),
        cache |-> locals.cache,
        idx |-> reserved.idx])))))

FunctionBuilder_commit_global(self, repo, p, c) ==
    FunctionBuilder_commit(self, UNDEFINED, repo, p, c)

RECURSIVE CommitMethods(_, _, _, _)
CommitMethods(methods, parent, repo, st) ==
    IF methods = <<>> THEN st
    ELSE Then(FunctionBuilder_commit(Head(methods), parent, repo, st.pool, st.cache),
              LAMBDA r :
         CommitMethods(Tail(methods), parent, repo,
             [pool |-> r.pool, cache |-> r.cache, idxs |-> Append(st.idxs, r.idx)]))

ClassBuilder_new(name, fields, methods, flags) ==
    [name |-> name, fields |-> fields, methods |-> methods, flags |-> flags]

ClassBuilder_commit_as(self, id, base, repo, p, c) ==
    Then(ConstantPool_names_add(p, self.name),
         LAMBDA named :
    Then(CommitMethods(self.methods, id, repo,
             [pool |-> named.pool, cache |-> c, idxs |-> <<>>]),
         LAMBDA methods :
    Then(CommitFields(self.fields, id, repo,
             [pool |-> methods.pool, cache |-> methods.cache, idxs |-> <<>>]),
         LAMBDA fields :
    [pool |-> ConstantPool_put_definition(fields.pool, id,
                 Definition_class(named.idx,
                     PoolClass(self.flags, base, methods.idxs, fields.idxs))),
     cache |-> fields.cache,
     idx |-> id])))

----------------------------------------------------------------------------
(* The compilation database and the repository of a compilation.  A method *)
(* id is the pair of the owner's type id and the index of the method among *)
(* the owner's methods (or among its statics); a global id is an index.    *)

Digits == <<"0", "1", "2", "3", "4", "5", "6", "7", "8", "9">>

names_param(i) == <<"arg", Digits[i + 1]>>

names_wrapper(i, signature) == <<"wrapper", "$", Digits[i + 1], "$">> \o signature

get_type_id(name) == name[1]

MethodId_new(owner, index) == <<owner, index>>
MethodId_owner(mid) == mid[1]
FieldId_new(owner, index) == <<owner, index>>

CompilationDb_default ==
    [classes |-> EmptyMap, fields |-> EmptyMap, methods |-> EmptyMap,
     statics |-> EmptyMap, globals |-> EmptyMap]

(* The methods of a class definition that are static, or that are not, in  *)
(* the order of the class's method list.                                   *)
MethodsOfClass(p, class_idx, static) ==
    LET Test(idx) == ConstantPool_definition(p, idx).value.flags.is_static = static
    IN SelectSeq(ConstantPool_definition(p, class_idx).value.methods, Test)

(* CompilationResources::load, the database: every class of the pool under *)
(* its type id, its methods and its statics under their method ids.        *)
CompilationResources_load_db(p) ==
    LET classIdxs == {i \in 1..(Len(p.definitions) - 1) :
                         ConstantPool_definition(p, i).value.tag = "Class"}
        owner(i) == get_type_id(ConstantPool_def_name(p, i))
        idxOf(id) == SetMax({i \in classIdxs : owner(i) = id})
        mids(static) ==
            UNION {{MethodId_new(owner(i), j - 1) :
                        j \in 1..Len(MethodsOfClass(p, i, static))} : i \in classIdxs}
    IN [classes |-> [id \in {owner(i) : i \in classIdxs} |-> idxOf(id)],
        fields |-> [fid \in UNION {{FieldId_new(owner(i), j - 1) :
                                       j \in 1..Len(ConstantPool_definition(p, i).value.fields)} :
                                   i \in classIdxs} |->
                       ConstantPool_definition(p, idxOf(fid[1])).value.fields[fid[2] + 1]],
        methods |-> [mid \in mids(FALSE) |->
                        MethodsOfClass(p, idxOf(mid[1]), FALSE)[mid[2] + 1]],
        statics |-> [mid \in mids(TRUE) |->
                        MethodsOfClass(p, idxOf(mid[1]), TRUE)[mid[2] + 1]],
        globals |-> EmptyMap]

FuncParam(typ) == [typ |-> typ, is_poly |-> FALSE, is_out |-> FALSE]

FuncType(params, ret) == [params |-> params, ret |-> ret, is_ret_poly |-> FALSE]

(* An entry of a class's methods or statics, or of the globals. *)
FuncEntry(signature, typ, flags, base) ==
    [signature |-> signature, typ |-> typ, flags |-> flags, base |-> base]

ClassType(extends, fields, methods, statics, is_struct) ==
    [k |-> "Class", is_struct |-> is_struct, extends |-> extends, fields |-> fields,
     methods |-> methods, statics |-> statics]

TypeRepo_get_method_with_signature(repo, mid) == repo.types[mid[1]].methods[mid[2] + 1]
TypeRepo_get_static_with_signature(repo, mid) == repo.types[mid[1]].statics[mid[2] + 1]
TypeRepo_globals_get_overload(repo, id) == repo.globals[id + 1]

CodeGenItem(k, mid, body, is_static) ==
    [k |-> k, mid |-> mid, body |-> body, is_static |-> is_static]

----------------------------------------------------------------------------
(* CompilationOutputs::commit (compiler.rs 799-1038), loop by loop.  The   *)
(* state st of an emission is the pool, the cache, the database and the    *)
(* wrappers map.                                                           *)

CompilationOutputs_build_function(signature, typ, flags, base, d) ==
    FunctionBuilder_new(
        flags, signature,
        IF typ.is_ret_poly THEN Type_Top ELSE typ.ret,
        [i \in 1..Len(typ.params) |->
            ParamBuilder_new(names_param(i - 1),
                             IF typ.params[i].is_poly THEN Type_Top
                             ELSE typ.params[i].typ)],
        IF base = <<>> THEN <<>> ELSE <<d.methods[base[1]]>>)

(* The first loop: an index is reserved for every defined class. *)
RECURSIVE ReserveTypes(_, _, _)
ReserveTypes(defined_types, repo, st) ==
    IF defined_types = <<>> THEN st
    ELSE LET item == Head(defined_types)
             reserved == ConstantPool_reserve(st.pool)
         IN ReserveTypes(Tail(defined_types), repo,
                IF repo.types[item].k = "Class"
                THEN [st EXCEPT !.pool = reserved.pool,
                                !.db.classes = MapPut(@, item, reserved.idx)]
                ELSE st)

(* db.fields, db.statics and db.methods after a class is built: its fields *)
(* zipped with the class definition's field list, its statics and then its *)
(* methods zipped with the class definition's method list.                 *)
ZipInto(map, id, offset, count, methods) ==
    [mid \in (DOMAIN map) \cup
             {MethodId_new(id, i) : i \in 0..(Min2(count, Len(methods) - offset) - 1)} |->
        IF mid[1] = id /\ mid[2] < Min2(count, Len(methods) - offset)
        THEN methods[offset + mid[2] + 1]
        ELSE map[mid]]

(* Whether build_type finds what it unwraps: the reserved index of the     *)
(* class, and for build_function the index of the base of each method.     *)
BuildFinds(id, repo, st) ==
    repo.types[id].k = "Class" =>
        /\ id \in DOMAIN st.db.classes
        /\ \A i \in DOMAIN repo.types[id].methods :
              \/ repo.types[id].methods[i].base = <<>>
              \/ repo.types[id].methods[i].base[1] \in DOMAIN st.db.methods

CompilationOutputs_build_type(id, repo, st) ==
    LET class_type == repo.types[id]
        class_idx == st.db.classes[id]
        base == IF class_type.extends # <<>> /\ class_type.extends[1] \in DOMAIN st.db.classes
                THEN st.db.classes[class_type.extends[1]]
                ELSE UNDEFINED
        fields == [i \in 1..Len(class_type.fields) |->
                      FieldBuilder_new(<<class_type.fields[i].name>>, class_type.fields[i].typ)]
        methods ==
            [i \in 1..Len(class_type.statics) |->
                CompilationOutputs_build_function(
                    class_type.statics[i].signature, class_type.statics[i].typ,
                    class_type.statics[i].flags, <<>>, st.db)]
            \o
            [i \in 1..Len(class_type.methods) |->
                CompilationOutputs_build_function(
                    class_type.methods[i].signature, class_type.methods[i].typ,
                    class_type.methods[i].flags, class_type.methods[i].base, st.db)]
        s == Len(class_type.statics)
    IN IF class_type.k # "Class" THEN st
       ELSE Then(ClassBuilder_commit_as(
                    ClassBuilder_new(<<id>>, fields, methods,
                                     [is_struct |-> class_type.is_struct]),
                    class_idx, base, repo.types, st.pool, st.cache),
                 LAMBDA built :
            Then(ConstantPool_definition(built.pool, built.idx).value,
                 LAMBDA class :
            [st EXCEPT
               !.pool = built.pool,
               !.cache = built.cache,
               !.db.fields = ZipInto(@, id, 0, Len(class_type.fields), class.fields),
               !.db.statics = ZipInto(@, id, 0, s, class.methods),
               !.db.methods = ZipInto(@, id, s, Len(class_type.methods), class.methods)]))

(* pool[parent].methods.push(idx) *)
PushMethod(p, parent, idx) ==
    [p EXCEPT !.definitions[parent + 1].value.methods = Append(@, idx)]

(* The skeleton of the item at position i (from 0) of the queue. *)
Skeleton(i, item, repo, st) ==
    CASE item.k = "AssembleGlobal" ->
            LET e == TypeRepo_globals_get_overload(repo, item.mid[2])
                flags == [f \in DOMAIN e.flags |->
                             IF f \in {"is_static", "is_final"} THEN TRUE ELSE e.flags[f]]
            IN Then(FunctionBuilder_commit_global(
                        CompilationOutputs_build_function(e.signature, e.typ, flags,
                                                          <<>>, st.db),
                        repo.types, st.pool, st.cache),
                    LAMBDA r :
               [st EXCEPT !.pool = r.pool, !.cache = r.cache,
                          !.db.globals = MapPut(@, item.mid, r.idx)])
      [] item.k = "AddMethod" ->
            LET e == IF item.is_static
                     THEN TypeRepo_get_static_with_signature(repo, item.mid)
                     ELSE TypeRepo_get_method_with_signature(repo, item.mid)
                parent == st.db.classes[MethodId_owner(item.mid)]
            IN Then(FunctionBuilder_commit(
                        CompilationOutputs_build_function(e.signature, e.typ, e.flags,
                                                          e.base, st.db),
                        parent, repo.types, st.pool, st.cache),
                    LAMBDA r :
               [st EXCEPT !.pool = PushMethod(r.pool, parent, r.idx),
                          !.cache = r.cache,
                          !.db.methods = MapPut(@, item.mid, r.idx)])
      [] item.k = "WrapMethod" ->
            LET e == IF item.is_static
                     THEN TypeRepo_get_static_with_signature(repo, item.mid)
                     ELSE TypeRepo_get_method_with_signature(repo, item.mid)
                parent == st.db.classes[MethodId_owner(item.mid)]
                wrapper_sig == names_wrapper(i, e.signature)
                queue == IF item.mid \in DOMAIN st.wrappers THEN st.wrappers[item.mid]
                         ELSE <<>>
            IN Then(FunctionBuilder_commit(
                        FunctionBuilder_with_wrapper_flag(
                            CompilationOutputs_build_function(wrapper_sig, e.typ, e.flags,
                                                              e.base, st.db)),
                        parent, repo.types, st.pool, st.cache),
                    LAMBDA r :
               [st EXCEPT !.pool = PushMethod(r.pool, parent, r.idx),
                          !.cache = r.cache,
                          !.wrappers = MapPut(@, item.mid, Append(queue, r.idx))])
      [] OTHER -> st

(* The orders in which a hash map of these values can be iterated. *)
IterationOrders(values) ==
    {order \in [1..Cardinality(values) -> values] :
        \A i, j \in DOMAIN order : order[i] = order[j] => i = j}

(* remap_locals: a copy of every local of target is added with proxy as    *)
(* its parent; target lists the copies, in the order the map of the copies *)
(* is iterated in, and its Local instructions refer to the copies.         *)
RemapTargets(p, target) ==
    LET locals == ConstantPool_definition(p, target).value.locals
    IN {Len(p.definitions) + SetMax({k \in 1..Len(locals) : locals[k] = l}) - 1 :
           l \in Range(locals)}

CompilationOutputs_remap_locals(proxy, target, p, order) ==
    LET locals == ConstantPool_definition(p, target).value.locals
        copies == [k \in 1..Len(locals) |->
                      [ConstantPool_definition(p, locals[k]) EXCEPT !.parent = proxy]]
        mapped_locals ==
            [l \in Range(locals) |->
                Len(p.definitions) + SetMax({k \in 1..Len(locals) : locals[k] = l}) - 1]
        code == ConstantPool_definition(p, target).value.code
    IN [p EXCEPT
          !.definitions =
              [@ EXCEPT ![target + 1].value.locals = order,
                        ![target + 1].value.code =
                            [i \in 1..Len(code) |->
                                IF code[i].op = "Local"
                                THEN Instr_Local(mapped_locals[code[i].arg])
                                ELSE code[i]]]
              \o copies]

(* The parameters of the last wrapper take the names of the parameters of  *)
(* the wrapped method, position by position.                               *)
RECURSIVE AlignParams(_, _, _)
AlignParams(p, from_params, to_params) ==
    IF from_params = <<>> \/ to_params = <<>> THEN p
    ELSE AlignParams(
            ConstantPool_rename(p, Head(to_params),
                                ConstantPool_def_name_idx(p, Head(from_params))),
            Tail(from_params), Tail(to_params))

(* One round of the linkage loop, for the wrappers of method mid. *)
Link(mid, st, order) ==
    LET indexes == st.wrappers[mid]
        wrapped_idx == st.db.methods[mid]
        last_wrapper_idx == indexes[Len(indexes)]
        popped == SubSeq(indexes, 1, Len(indexes) - 1)
        wrapped_name == ConstantPool_def_name_idx(st.pool, wrapped_idx)
        wrapper_name == ConstantPool_def_name_idx(st.pool, last_wrapper_idx)
        wrapped_flags == ConstantPool_definition(st.pool, wrapped_idx).value.flags
        cleared == [wrapped_flags EXCEPT !.is_callback = FALSE]
        p1 == IF wrapped_flags.is_callback
              THEN [st.pool EXCEPT
                      !.definitions[wrapped_idx + 1].value.flags = cleared,
                      !.definitions[last_wrapper_idx + 1].value.flags =
                          [cleared EXCEPT !.is_callback = TRUE]]
              ELSE st.pool
        p2 == AlignParams(p1,
                          ConstantPool_definition(p1, wrapped_idx).value.parameters,
                          ConstantPool_definition(p1, last_wrapper_idx).value.parameters)
        p3 == CompilationOutputs_remap_locals(last_wrapper_idx, wrapped_idx, p2, order)
        p4 == ConstantPool_rename(p3, last_wrapper_idx, wrapped_name)
        p5 == ConstantPool_rename(p4, wrapped_idx, wrapper_name)
        p6 == ConstantPool_swap_definition(p5, wrapped_idx, last_wrapper_idx)
    IN [st EXCEPT !.pool = p6,
                  !.wrappers[mid] = <<last_wrapper_idx>> \o popped \o <<wrapped_idx>>]

(* The code generator: every body of this model declares one local, and a  *)
(* body that is given a wrapped method calls it.                           *)
CodeGen_build_function(body, repo, wrapped, p, c) ==
    Then(CommitLocals(<<LocalBuilder_new(<<"v">>, Type_Prim("Int32"))>>,
                      repo.types, [pool |-> p, cache |-> c, idxs |-> <<>>]),
         LAMBDA locals :
    [pool |-> locals.pool, cache |-> locals.cache, locals |-> locals.idxs,
     code |-> [i \in 1..Len(locals.idxs) |-> Instr_Local(locals.idxs[i])]
              \o <<Instr_Body(body)>>
              \o (IF wrapped = <<>> THEN <<>> ELSE <<Instr_Call(wrapped[1])>>)])

(* Whether the second pass finds the function of an item; the unwrap and   *)
(* expect calls of the second pass fail when it does not.                  *)
CodegenFinds(item, st) ==
    CASE item.k = "AssembleGlobal" -> item.mid \in DOMAIN st.db.globals
      [] item.k = "WrapMethod" ->
            item.mid \in DOMAIN st.wrappers /\ Len(st.wrappers[item.mid]) >= 2
      [] OTHER -> IF item.is_static THEN item.mid \in DOMAIN st.db.statics
                  ELSE item.mid \in DOMAIN st.db.methods

(* The second pass writing the body of a method into a copy of its         *)
(* function.                                                               *)
Codegen_IntoCopy(item, repo, st) ==
    IF item.k = "WrapMethod"
    THEN LET indexes == st.wrappers[item.mid]
             wrapped == Head(indexes)
             index == Head(Tail(indexes))
         IN Then(CodeGen_build_function(item.body, repo, <<wrapped>>, st.pool, st.cache),
                 LAMBDA g :
            [st EXCEPT
               !.pool = ConstantPool_complete_function(g.pool, index, g.locals, g.code),
               !.cache = g.cache,
               !.wrappers[item.mid] = Tail(indexes)])
    ELSE LET idx == CASE item.k = "AssembleGlobal" -> st.db.globals[item.mid]
                      [] item.is_static -> st.db.statics[item.mid]
                      [] OTHER -> st.db.methods[item.mid]
         IN Then(CodeGen_build_function(item.body, repo, <<>>, st.pool, st.cache),
                 LAMBDA g :
            Then(ConstantPool_add_definition(g.pool, ConstantPool_definition(g.pool, idx)),
                 LAMBDA copy :
            [st EXCEPT
               !.pool = ConstantPool_complete_function(copy.pool, copy.idx, g.locals,
                                                       g.code),
               !.cache = g.cache]))

(* The second pass for one item of the queue. *)
Codegen(item, repo, st) ==
    IF item.k = "WrapMethod"
    THEN LET indexes == st.wrappers[item.mid]
             wrapped == Head(indexes)
             index == Head(Tail(indexes))
         IN Then(CodeGen_build_function(item.body, repo, <<wrapped>>, st.pool, st.cache),
                 LAMBDA g :
            [st EXCEPT
               !.pool = ConstantPool_complete_function(g.pool, index, g.locals, g.code),
               !.cache = g.cache,
               !.wrappers[item.mid] = Tail(indexes)])
    ELSE LET idx == CASE item.k = "AssembleGlobal" -> st.db.globals[item.mid]
                      [] item.is_static -> st.db.statics[item.mid]
                      [] OTHER -> st.db.methods[item.mid]
         IN Then(CodeGen_build_function(item.body, repo, <<>>, st.pool, st.cache),
                 LAMBDA g :
            [st EXCEPT
               !.pool = ConstantPool_complete_function(g.pool, idx, g.locals, g.code),
               !.cache = g.cache])

----------------------------------------------------------------------------
(* Emission runs.  A compilation wraps, replaces or adds to one class: the *)
(* predefined class C of a loaded pool, or a class D declared in the       *)
(* sources, on a loaded pool or on a default-constructed one; D may extend *)
(* C and its M override the M of C.  M is the                              *)
(* first method of the class; the sources may give it wrappers and a body, *)
(* add a method or a static to the class and declare a global.             *)

MaxQueue == 3       \* items in the code generation queue

ItemKinds == {"WrapMethod", "AssembleMethod", "AddMethod", "AddStatic", "AssembleGlobal"}

Queues ==
    {q \in SeqsUpTo(ItemKinds, MaxQueue) :
        \A k \in ItemKinds \ {"WrapMethod"} :
            Cardinality({i \in DOMAIN q : q[i] = k}) <= 1}

UnitKinds == {"predef", "declared", "fresh", "override"}

OwnerOf(kind) == IF kind = "predef" THEN "C" ELSE "D"

Int32Params == <<FuncParam(Type_Prim("Int32")), FuncParam(Type_Prim("Int32"))>>

UnitClass(owner, ret, is_callback, q) ==
    ClassType(
        <<>>, <<>>,
        <<FuncEntry(<<"M">>, FuncType(Int32Params, ret),
                    FunctionFlags(is_callback, FALSE), <<>>)>>
        \o (IF "AddMethod" \in Range(q)
            THEN <<FuncEntry(<<"A">>, FuncType(<<>>, Prim_Unit),
                             FunctionFlags(FALSE, FALSE), <<>>)>>
            ELSE <<>>),
        IF "AddStatic" \in Range(q)
        THEN <<FuncEntry(<<"B">>, FuncType(<<>>, Prim_Unit),
                         FunctionFlags(FALSE, TRUE), <<>>)>>
        ELSE <<>>,
        FALSE)

UnitItem(owner, k, i) ==
    CASE k = "WrapMethod" -> CodeGenItem("WrapMethod", MethodId_new(owner, 0), i, FALSE)
      [] k = "AssembleMethod" -> CodeGenItem("AssembleMethod", MethodId_new(owner, 0), i, FALSE)
      [] k = "AddMethod" -> CodeGenItem("AddMethod", MethodId_new(owner, 1), i, FALSE)
      [] k = "AddStatic" -> CodeGenItem("AddMethod", MethodId_new(owner, 0), i, TRUE)
      [] k = "AssembleGlobal" -> CodeGenItem("AssembleGlobal", MethodId_new("", 0), i, TRUE)

Unit(kind, is_callback, q) ==
    LET owner == OwnerOf(kind)
        ids == (DOMAIN TypeRepo) \cup {owner}
    IN [repo |->
           [types |-> [id \in ids |->
                          IF id = owner
                          THEN Then(UnitClass(owner,
                                              IF kind = "predef" THEN Prim_Void
                                              ELSE Prim_Unit,
                                              is_callback, q),
                                    LAMBDA class :
                               IF kind = "override"
                               THEN [class EXCEPT
                                       !.extends = <<"C">>,
                                       !.methods[1].base = <<MethodId_new("C", 0)>>]
                               ELSE class)
                          ELSE TypeRepo[id]],
            globals |-> IF "AssembleGlobal" \in Range(q)
                        THEN <<FuncEntry(<<"G">>, FuncType(<<>>, Prim_Unit),
                                         FunctionFlags(FALSE, FALSE), <<>>)>>
                        ELSE <<>>],
        defined_types |-> IF kind = "predef" THEN <<>> ELSE <<owner>>,
        codegen_queue |-> [i \in 1..Len(q) |-> UnitItem(owner, q[i], i)]]

(* The state of an emission, and the phase that follows a loop. *)
Emission == [pool |-> pool, cache |-> cache, db |-> db, wrappers |-> wrappers]

PhaseAfterBuild == IF unit.codegen_queue = <<>> THEN "done" ELSE "skeleton"
PhaseAfterReserve == IF unit.defined_types = <<>> THEN PhaseAfterBuild ELSE "build"
PhaseAfterSkeleton(st) == IF DOMAIN st.wrappers = {} THEN "codegen" ELSE "link"

IndexOfM(d) == IF hist.mid \in DOMAIN d.methods THEN d.methods[hist.mid] ELSE UNDEFINED

InitCommit ==
    /\ pc = "reserve"
    /\ \E kind \in UnitKinds, is_callback \in BOOLEAN, q \in Queues :
          /\ unit = Unit(kind, is_callback, q)
          /\ pool = IF kind = "fresh" THEN ConstantPool_default ELSE LoadedPool(is_callback)
          /\ hist = [mid |-> MethodId_new(OwnerOf(kind), 0),
                     was_callback |-> is_callback,
                     m |-> IF kind = "predef" THEN CompilationResources_load_db(pool).methods[MethodId_new("C", 0)] ELSE UNDEFINED,
                     built |-> NoPool,
                     before |-> NoPool,
                     shims |-> EmptyMap,
                     target |-> EmptyMap,
                     placed |-> EmptyMap]
    /\ cache = CompilationResources_load_type_cache(pool)
    /\ db = CompilationResources_load_db(pool)
    /\ wrappers = EmptyMap
    /\ pos = 1
    /\ linked = {}
    /\ handed = {}
    /\ allocated = EmptyMap
    /\ input = NoBundle
    /\ output = NoBundle
    /\ pool2 = NoPool

(* What every step of an emission does with the state st it arrives at. *)
Emit(st, phase, nextPos) ==
    /\ pool' = st.pool
    /\ cache' = st.cache
    /\ db' = st.db
    /\ wrappers' = st.wrappers
    /\ handed' = handed \cup HandedBetween(pool, st.pool)
    /\ pc' = phase
    /\ pos' = nextPos
    /\ UNCHANGED <<unit, allocated, codecVars>>

CommitReserve ==
    /\ pc = "reserve"
    /\ \E st \in {ReserveTypes(unit.defined_types, unit.repo, Emission)} :
          /\ Emit(st, PhaseAfterReserve, 1)
          /\ hist' = [hist EXCEPT !.m = IndexOfM(st.db), !.built = st.pool]
    /\ UNCHANGED linked

CommitBuildType ==
    /\ pc = "build"
    /\ IF BuildFinds(unit.defined_types[pos], unit.repo, Emission)
       THEN \E st \in {CompilationOutputs_build_type(unit.defined_types[pos], unit.repo,
                                                      Emission)} :
            LET last == pos = Len(unit.defined_types)
            IN /\ Emit(st, IF last THEN PhaseAfterBuild ELSE "build",
                       IF last THEN 1 ELSE pos + 1)
               /\ hist' = [hist EXCEPT !.m = IndexOfM(st.db), !.built = st.pool]
       ELSE Emit(Emission, "panicked", pos) /\ UNCHANGED hist
    /\ UNCHANGED linked

CommitSkeleton ==
    /\ pc = "skeleton"
    /\ \E st \in {Skeleton(pos - 1, unit.codegen_queue[pos], unit.repo, Emission)} :
       LET item == unit.codegen_queue[pos]
           last == pos = Len(unit.codegen_queue)
       IN /\ Emit(st, IF last THEN PhaseAfterSkeleton(st) ELSE "skeleton",
                  IF last THEN 1 ELSE pos + 1)
          /\ hist' = [hist EXCEPT
                        !.shims = IF item.k = "WrapMethod"
                                  THEN MapPut(@, pos, st.wrappers[item.mid][Len(st.wrappers[item.mid])])
                                  ELSE @,
                        !.before = IF last THEN st.pool ELSE @]
    /\ UNCHANGED linked

CommitLink ==
    /\ pc = "link"
    /\ \E mid \in (DOMAIN wrappers) \ linked :
          \E order \in IterationOrders(RemapTargets(pool, db.methods[mid])) :
             /\ Emit(Link(mid, Emission, order),
                     IF (DOMAIN wrappers) \ linked = {mid} THEN "codegen" ELSE "link", 1)
             /\ linked' = linked \cup {mid}
    /\ UNCHANGED hist

CommitCodegen ==
    /\ pc = "codegen"
    /\ LET item == unit.codegen_queue[pos]
           last == pos = Len(unit.codegen_queue)
           wrap == item.k = "WrapMethod"
       IN IF CodegenFinds(item, Emission)
          THEN /\ Emit(Codegen(item, unit.repo, Emission),
                       IF last THEN "done" ELSE "codegen", IF last THEN 1 ELSE pos + 1)
               /\ hist' = [hist EXCEPT
                             !.target = IF wrap THEN MapPut(@, pos, wrappers[item.mid][1])
                                        ELSE @,
                             !.placed = IF wrap THEN MapPut(@, pos, wrappers[item.mid][2])
                                        ELSE @]
          ELSE Emit(Emission, "panicked", pos) /\ UNCHANGED hist
    /\ UNCHANGED linked

NextCommit ==
    CommitReserve \/ CommitBuildType \/ CommitSkeleton \/ CommitLink \/ CommitCodegen

SpecCommit == InitCommit /\ [][NextCommit]_vars

----------------------------------------------------------------------------
(* Claims about emission.  M is the method the wrappers are for, m the     *)
(* index it had when the skeleton pass began, W(1)..W(n) the WrapMethod    *)
(* items in queue order.                                                   *)

WrapPositions == {i \in DOMAIN unit.codegen_queue : unit.codegen_queue[i].k = "WrapMethod"}
NumWrappers == Cardinality(WrapPositions)
W(k) == CHOOSE i \in WrapPositions : Cardinality({j \in WrapPositions : j < i}) = k - 1
ShimOf(k) == hist.shims[W(k)]
ChainSlots == {hist.m} \cup {ShimOf(k) : k \in 1..NumWrappers}

Wrapped == pc = "done" /\ NumWrappers >= 1

FunctionAt(p, i) == ConstantPool_definition(p, i).value
IsFunction(p, i) == ConstantPool_definition(p, i).value.tag = "Function"
FunctionIndices(p) == {i \in 0..(Len(p.definitions) - 1) : IsFunction(p, i)}
BodiesAt(p, i) == {FunctionAt(p, i).code[j].arg :
                      j \in {x \in DOMAIN FunctionAt(p, i).code : FunctionAt(p, i).code[x].op = "Body"}}
CallsAt(p, i) == {FunctionAt(p, i).code[j].arg :
                     j \in {x \in DOMAIN FunctionAt(p, i).code : FunctionAt(p, i).code[x].op = "Call"}}

(* M as it was before the linkage, and where its definition sits now. *)
Original == ConstantPool_definition(hist.before, hist.m)
OriginalSlots == {i \in FunctionIndices(pool) :
                     FunctionAt(pool, i).parameters = Original.value.parameters}

(* A local of the pool now is a copy of a local of the pool before. *)
CopyOfLocal(old, new) ==
    /\ ConstantPool_definition(pool, new).value.tag = "Local"
    /\ ConstantPool_definition(pool, new).name = ConstantPool_definition(hist.before, old).name
    /\ ConstantPool_definition(pool, new).value = ConstantPool_definition(hist.before, old).value

(* The function at slot s has the body and the locals M had. *)
HoldsOriginalBody(s) ==
    LET old == Original.value
        new == FunctionAt(pool, s)
    IN /\ Len(new.code) = Len(old.code)
       /\ \A i \in DOMAIN old.code :
             /\ new.code[i].op = old.code[i].op
             /\ IF old.code[i].op = "Local"
                THEN CopyOfLocal(old.code[i].arg, new.code[i].arg)
                ELSE new.code[i] = old.code[i]
       /\ Len(new.locals) = Len(old.locals)
       /\ \A l \in Range(old.locals) : \E c \in Range(new.locals) : CopyOfLocal(l, c)

AddedItems == {i \in DOMAIN unit.codegen_queue :
                  unit.codegen_queue[i].k \in {"AddMethod", "AssembleGlobal"}}

(* C3: after the commit of n >= 1 wrappers of M, n functions were made for *)
(* the wrappers; index m carries M's original name and the body of W(n);   *)
(* the slot made for W(n) carries M's original body and locals and the     *)
(* wrapper name generated for W(n).                                        *)
C3_WrapperRotation ==
    Wrapped =>
        /\ Cardinality({ShimOf(k) : k \in 1..NumWrappers}) = NumWrappers
        /\ Cardinality(FunctionIndices(pool) \ FunctionIndices(hist.built))
              = NumWrappers + Cardinality(AddedItems)
        /\ ConstantPool_def_name(pool, hist.m) = ConstantPool_def_name(hist.before, hist.m)
        /\ BodiesAt(pool, hist.m) = {W(NumWrappers)}
        /\ HoldsOriginalBody(ShimOf(NumWrappers))
        /\ ConstantPool_def_name(pool, ShimOf(NumWrappers))
              = names_wrapper(W(NumWrappers) - 1,
                              ConstantPool_def_name(hist.before, hist.m))

(* The slots met by following the wrappedMethod calls from index m. *)
RECURSIVE ChainFrom(_, _)
ChainFrom(i, steps) ==
    IF steps = 0 \/ Cardinality(CallsAt(pool, i)) # 1 THEN <<i>>
    ELSE <<i>> \o ChainFrom(CHOOSE t \in CallsAt(pool, i) : TRUE, steps - 1)

(* C4: the code generator is given the slot of M's original body as the    *)
(* wrappedMethod of W(1) and the slot that received the body of W(k-1) as  *)
(* the wrappedMethod of W(k); the calls from index m lead through the      *)
(* bodies of W(n), ..., W(1) to the original body, each slot met once.     *)
C4_WrapperChain ==
    Wrapped =>
        LET n == NumWrappers
            chain == ChainFrom(hist.m, n + 1)
        IN /\ OriginalSlots = {hist.target[W(1)]}
           /\ HoldsOriginalBody(hist.target[W(1)])
           /\ \A k \in 2..n : hist.target[W(k)] = hist.placed[W(k - 1)]
           /\ Len(chain) = n + 1
           /\ \A j \in 1..n : BodiesAt(pool, chain[j]) = {W(n - j + 1)}
           /\ chain[n + 1] \in OriginalSlots
           /\ CallsAt(pool, chain[n + 1]) = {}
           /\ \A i, j \in 1..(n + 1) : chain[i] = chain[j] => i = j

(* C5: of the n+1 functions of the chain, the one at index m and no other  *)
(* is a callback when M was one, and none is when M was not.               *)
C5_OneCallback ==
    Wrapped =>
        {i \in ChainSlots : FunctionAt(pool, i).flags.is_callback}
            = IF hist.was_callback THEN {hist.m} ELSE {}

(* Two wrappers of a callback M were committed: index m holds the body of  *)
(* the last wrapper and the callback flag, the original sits elsewhere.    *)
C5_Witness ==
    /\ Wrapped
    /\ NumWrappers >= 2
    /\ hist.was_callback
    /\ Original.value.flags.is_callback
    /\ FunctionAt(pool, hist.m).flags.is_callback
    /\ BodiesAt(pool, hist.m) = {W(NumWrappers)}
    /\ hist.m \notin OriginalSlots

ParamName(i, j) == ConstantPool_def_name(pool, FunctionAt(pool, i).parameters[j])

(* C6: at every parameter position the n+1 functions of the chain have the *)
(* same parameter name.                                                    *)
C6_ParamNamesAligned ==
    Wrapped =>
        \A a, b \in ChainSlots :
            /\ Len(FunctionAt(pool, a).parameters) = Len(FunctionAt(pool, b).parameters)
            /\ \A j \in DOMAIN FunctionAt(pool, a).parameters :
                  ParamName(a, j) = ParamName(b, j)

(* C7: after commit every local a function lists is a Local definition    *)
(* whose parent is the index of the function, and the Local instructions   *)
(* of the relocated original refer to locals it lists.                     *)
C7_LocalsOwned ==
    pc = "done" =>
        /\ \A i \in FunctionIndices(pool) :
              \A l \in Range(FunctionAt(pool, i).locals) :
                 /\ ConstantPool_definition(pool, l).value.tag = "Local"
                 /\ ConstantPool_definition(pool, l).parent = i
        /\ NumWrappers >= 1 =>
              \A s \in OriginalSlots :
                 \A j \in DOMAIN FunctionAt(pool, s).code :
                    FunctionAt(pool, s).code[j].op = "Local" =>
                       FunctionAt(pool, s).code[j].arg \in Range(FunctionAt(pool, s).locals)

(* A predefined M with two locals was wrapped: the original sits in the    *)
(* slot made for the last wrapper with two relocated locals that its code  *)
(* uses, and index m lists the local of the wrapper's body.                *)
C7_Witness ==
    /\ Wrapped
    /\ OriginalSlots = {ShimOf(NumWrappers)}
    /\ Len(FunctionAt(pool, ShimOf(NumWrappers)).locals) = 2
    /\ Range(Original.value.locals) \cap Range(FunctionAt(pool, ShimOf(NumWrappers)).locals) = {}
    /\ \E j \in DOMAIN FunctionAt(pool, ShimOf(NumWrappers)).code :
          FunctionAt(pool, ShimOf(NumWrappers)).code[j].op = "Local"
    /\ Len(FunctionAt(pool, hist.m).locals) = 1

----------------------------------------------------------------------------
(* String table runs: strings are added to the four tables of a pool that  *)
(* was default-constructed, or loaded from a game bundle, or decoded from  *)
(* a file whose names table holds one string twice.                        *)

MaxAdds == 3        \* add calls in a run

TableFields == {"names", "tweakdb_ids", "resources", "strings"}

(* K::DEFAULT of the table behind a field of the pool. *)
DefaultOf(field) == IF field = "names" THEN CName_DEFAULT ELSE String_DEFAULT

AddedStrings == {<<"None">>, <<"a">>, <<"b">>}

RepeatedNameBundle == StringBundle(<<"a", NUL>>, <<<<1, 0>>, <<1, 0>>, <<4, 0>>>>)

NoCall == [calls |-> 0, field |-> "names", str |-> <<>>, idx |-> UNDEFINED,
           before |-> Strings_default]

InitStrings ==
    /\ pc = "strings"
    /\ pool \in {ConstantPool_default, LoadedPool(FALSE),
                 ScriptBundle_load(RepeatedNameBundle).pool}
    /\ hist = NoCall
    /\ input = NoBundle
    /\ output = NoBundle
    /\ pool2 = NoPool
    /\ cache = EmptyMap
    /\ allocated = EmptyMap
    /\ handed = {}
    /\ unit = NoCommit /\ db = NoCommit /\ wrappers = EmptyMap
    /\ pos = 0 /\ linked = {}

(* pool.<field>.add(str) *)
AddString ==
    /\ pc = "strings"
    /\ hist.calls < MaxAdds
    /\ \E field \in TableFields, str \in AddedStrings :
          \E r \in {Strings_add(pool[field], str, DefaultOf(field))} :
             /\ pool' = [pool EXCEPT ![field] = r.strings]
             /\ hist' = [calls |-> hist.calls + 1, field |-> field, str |-> str,
                         idx |-> r.idx, before |-> pool[field]]
    /\ UNCHANGED <<pc, codecVars, typeVars, unit, db, wrappers, pos, linked>>

NextStrings == AddString

SpecStrings == InitStrings /\ [][NextStrings]_vars

----------------------------------------------------------------------------
(* Claims about the string tables.                                         *)

(* The last call, the table it was made on and the table it left. *)
Called == pc = "strings" /\ hist.calls > 0
TableBefore == hist.before.strings
TableAfter == pool[hist.field].strings

(* C11: add(s) of a table's default string returns the undefined index and *)
(* leaves the table as it was; add(s) of a string the table holds returns  *)
(* an index at which the table holds s and leaves the table as it was; and *)
(* add(s) of any other string appends s, returns the index of the new last *)
(* entry and changes no earlier entry.                                     *)
C11_AddContract ==
    Called =>
        IF DefaultOf(hist.field) = <<hist.str>>
        THEN hist.idx = UNDEFINED /\ pool[hist.field] = hist.before
        ELSE IF hist.str \in Range(TableBefore)
        THEN /\ hist.idx \in 0..(Len(TableBefore) - 1)
             /\ At(TableBefore, hist.idx) = hist.str
             /\ pool[hist.field] = hist.before
        ELSE /\ TableAfter = Append(TableBefore, hist.str)
             /\ hist.idx = Len(TableBefore)

(* The third call of a run found its string in a table that held one      *)
(* string twice and that an earlier call had appended to.                  *)
C11_Witness ==
    /\ Called
    /\ hist.calls = MaxAdds
    /\ hist.str \in Range(TableBefore)
    /\ Len(TableBefore) >= 3
    /\ \E i, j \in DOMAIN TableBefore : i # j /\ TableBefore[i] = TableBefore[j]

----------------------------------------------------------------------------
(* The front end, Compiler::run (compiler.rs 57-96).  A source file is     *)
(* what the parser makes of it: an error, or the entries of a top-level    *)
(* module.  The type a declaration names is written as the type its name   *)
(* resolves to, and a qualifier list as the set of its qualifiers.         *)

SourceFile(parses, entries) == [parses |-> parses, entries |-> entries]

Annotation(kind, args) == [kind |-> kind, args |-> args]

(* A function declaration: a member of a class, or a top-level entry. *)
FunctionSource(annotations, name, qualifiers, parameters, type_, body) ==
    [k |-> "Function", annotations |-> annotations, name |-> name,
     qualifiers |-> qualifiers, parameters |-> parameters, type_ |-> type_,
     body |-> body]

MemberSource_Method(name, qualifiers, parameters, type_, body) ==
    [k |-> "Method",
     decl |-> FunctionSource(<<>>, name, qualifiers, parameters, type_, body)]

MemberSource_Field(name, type_) == [k |-> "Field", name |-> name, type_ |-> type_]

(* SourceEntry::Class and SourceEntry::Struct. *)
ClassSource(k, name, tparams, base, qualifiers, members) ==
    [k |-> k, name |-> name, tparams |-> tparams, base |-> base,
     qualifiers |-> qualifiers, members |-> members]

GlobalLet(annotations, name, type_) ==
    [k |-> "GlobalLet", annotations |-> annotations, name |-> name, type_ |-> type_]

get_function_flags(qualifiers) ==
    [is_native |-> "native" \in qualifiers,
     is_callback |-> "cb" \in qualifiers,
     is_final |-> "static" \in qualifiers \/ "final" \in qualifiers,
     is_static |-> "static" \in qualifiers,
     has_body |-> FALSE]

get_class_flags(qualifiers) ==
    [is_native |-> "importonly" \in qualifiers \/ "native" \in qualifiers,
     is_abstract |-> "abstract" \in qualifiers,
     is_final |-> "final" \in qualifiers,
     is_struct |-> FALSE]

(* The ClassType that preprocess_entry starts a declared class with. *)
ClassType_declared(type_vars, extends, flags) ==
    [k |-> "Class", is_struct |-> flags.is_struct,
     extends |-> IF extends = <<>> THEN <<>> ELSE <<extends[1].id>>,
     extends_args |-> IF extends = <<>> THEN <<>> ELSE extends[1].args,
     fields |-> <<>>, methods |-> <<>>, statics |-> <<>>,
     type_vars |-> type_vars, flags |-> flags, span |-> TRUE]

(* A class of the loaded pool as the repository holds it before a run. *)
ClassType_loaded(extends, methods) ==
    [k |-> "Class", is_struct |-> FALSE, extends |-> extends, extends_args |-> <<>>,
     fields |-> <<>>, methods |-> methods, statics |-> <<>>,
     type_vars |-> <<>>, flags |-> get_class_flags({}), span |-> FALSE]

(* The mangled signature of an overload: its short name and the names of   *)
(* its parameter types.                                                    *)
FuncSignature_from_name_and_type(name, typ) ==
    <<name>> \o [i \in 1..Len(typ.params) |-> typ.params[i].typ.id]

FuncSignature_name(signature) == Head(signature)

(* FuncMap::add: the overload is appended, its index is returned. *)
FuncMap_add(self, name, typ, flags) ==
    [map |-> Append(self, FuncEntry(FuncSignature_from_name_and_type(name, typ),
                                    typ, flags, <<>>)),
     index |-> Len(self)]

(* FuncMap::by_name: the indexes of the overloads of a short name. *)
FuncMap_by_name(self, name) ==
    LET Test(i) == FuncSignature_name(self[i + 1].signature) = name
    IN SelectSeq([i \in 1..Len(self) |-> i - 1], Test)

FieldMap_add(self, name, typ) == Append(self, [name |-> name, typ |-> typ])

TypeRepo_add_type(repo, id, data_type) ==
    [repo EXCEPT !.types = MapPut(@, id, data_type)]

(* TypeRepo::upper_iter: a class and the classes it extends, upwards. *)
RECURSIVE TypeRepo_upper_iter(_, _)
TypeRepo_upper_iter(repo, id) ==
    IF id \notin DOMAIN repo.types \/ repo.types[id].k # "Class" THEN <<>>
    ELSE <<id>> \o (IF repo.types[id].extends = <<>> THEN <<>>
                    ELSE TypeRepo_upper_iter(repo, repo.types[id].extends[1]))

(* A type with the variables of env replaced by what they stand for. *)
InferType_from_type_with(typ, env) ==
    IF typ.k = "Var" /\ typ.id \in DOMAIN env THEN env[typ.id]
    ELSE IF typ.k = "Data"
    THEN [typ EXCEPT !.args = [i \in 1..Len(typ.args) |->
                                  IF typ.args[i].k = "Var" /\ typ.args[i].id \in DOMAIN env
                                  THEN env[typ.args[i].id] ELSE typ.args[i]]]
    ELSE typ

(* The variables of a class bound to the arguments it is used with. *)
TypeVarsOf(repo, id, args) ==
    [v \in {repo.types[id].type_vars[i] :
               i \in 1..Min2(Len(repo.types[id].type_vars), Len(args))} |->
        args[CHOOSE i \in 1..Len(args) : repo.types[id].type_vars[i] = v]]

(* Data::instantiate_as: this type seen as its ancestor id. *)
RECURSIVE Data_instantiate_as(_, _, _)
Data_instantiate_as(this, id, repo) ==
    IF this.id = id THEN this
    ELSE LET class == repo.types[this.id]
             env == TypeVarsOf(repo, this.id, this.args)
         IN Data_instantiate_as(
                Type_Data(class.extends[1],
                          [i \in 1..Len(class.extends_args) |->
                              InferType_from_type_with(class.extends_args[i], env)]),
                id, repo)

(* is_same_shape: primitives are the same primitive, data types have the   *)
(* same id and arguments of the same shape, a variable faces a variable.   *)
RECURSIVE InferType_is_same_shape(_, _)
InferType_is_same_shape(l, r) ==
    /\ l.k = r.k
    /\ l.k = "Prim" => l.id = r.id
    /\ l.k = "Data" =>
          /\ l.id = r.id
          /\ Len(l.args) = Len(r.args)
          /\ \A i \in 1..Len(l.args) : InferType_is_same_shape(l.args[i], r.args[i])

(* The compiler while it runs: the repository, the types in scope, the     *)
(* defined types, the modules preprocessed so far and the reported errors. *)
Compiler_new(repo) ==
    [repo |-> repo, types |-> DOMAIN repo.types, defined_types |-> <<>>,
     compile_queue |-> <<>>, reporter |-> <<>>]

CompileError(kind, name) == [kind |-> kind, name |-> name]

ErrorReporter_report(self, error) == Append(self, error)

CompileBody(name, index, body, is_static) ==
    [name |-> name, index |-> index, body |-> body, is_static |-> is_static]

(* CompileBody::new: nothing for a function without a body. *)
CompileBody_new(func, index, is_global) ==
    IF func.body = <<>> THEN <<>>
    ELSE <<CompileBody(func.name, index, func.body[1],
                       is_global \/ "static" \in func.qualifiers)>>

ModuleItem_Class(this, funcs) == [k |-> "Class", this |-> this, funcs |-> funcs]
ModuleItem_Global(body) == [k |-> "Global", body |-> body]
ModuleItem_AnnotatedMethod(this, body, kind) ==
    [k |-> "AnnotatedMethod", this |-> this, body |-> body, kind |-> kind]

(* What preprocess_entry comes to: an item or none, an error, or a panic,  *)
(* and the compiler it leaves.                                             *)
Ok(self, item) == [self |-> self, res |-> "Ok", item |-> item]
Err(self, error) == [self |-> self, res |-> "Err", error |-> error]
Panic(self) == [self |-> self, res |-> "Panic"]

populate_entry(self, entry) ==
    IF entry.k \in {"Class", "Struct"}
    THEN [self EXCEPT !.types = @ \cup {entry.name}]
    ELSE self

preprocess_function(func) ==
    FuncType([i \in 1..Len(func.parameters) |-> FuncParam(func.parameters[i])],
             IF func.type_ = <<>> THEN Prim_Void ELSE func.type_[1])

validate_method(reporter, type_flags, method_flags, name) ==
    LET Check(r, failed, what) ==
            IF failed THEN ErrorReporter_report(r, CompileError(what, name)) ELSE r
    IN Check(Check(Check(Check(reporter,
           method_flags.is_native /\ ~type_flags.is_native, "NativeInNonNative"),
           ~method_flags.is_static /\ type_flags.is_struct, "NonStaticStructMember"),
           method_flags.is_final /\ ~method_flags.has_body /\ ~method_flags.is_native,
           "FinalWithoutBody"),
           method_flags.has_body /\ method_flags.is_native, "NativeWithBody")

(* The members of a declared class, in order: acc is the class type, the   *)
(* pending bodies and the reporter so far.                                 *)
RECURSIVE PreprocessMembers(_, _)
PreprocessMembers(members, acc) ==
    IF members = <<>> THEN acc
    ELSE PreprocessMembers(Tail(members),
        Then(Head(members), LAMBDA member :
        IF member.k = "Method"
        THEN Then([get_function_flags(member.decl.qualifiers)
                       EXCEPT !.has_body = member.decl.body # <<>>],
                  LAMBDA flags :
             Then(IF flags.is_static
                  THEN FuncMap_add(acc.data_type.statics, member.decl.name,
                                   preprocess_function(member.decl), flags)
                  ELSE FuncMap_add(acc.data_type.methods, member.decl.name,
                                   preprocess_function(member.decl), flags),
                  LAMBDA added :
             [data_type |->
                  IF flags.is_static
                  THEN [acc.data_type EXCEPT !.statics = added.map]
                  ELSE [acc.data_type EXCEPT !.methods = added.map],
              methods |-> acc.methods \o CompileBody_new(member.decl, added.index, FALSE),
              reporter |-> validate_method(acc.reporter, acc.data_type.flags, flags,
                                           member.decl.name)]))
        ELSE [acc EXCEPT !.data_type.fields =
                             FieldMap_add(@, member.name, member.type_)]))

(* locate_annotation_method settling for the first of several methods of  *)
(* the name.                                                               *)
locate_annotation_method_First(self, replace, name) ==
    IF replace \notin self.types THEN Err(self, CompileError("UnresolvedType", replace))
    ELSE IF replace \notin DOMAIN self.repo.types THEN Panic(self)
    ELSE IF self.repo.types[replace].k # "Class"
    THEN Err(self, CompileError("UnresolvedType", replace))
    ELSE Then(FuncMap_by_name(self.repo.types[replace].methods, name),
              LAMBDA found :
         IF Len(found) >= 1 THEN Ok(self, <<found[1]>>)
         ELSE Err(self, CompileError("UnresolvedFunction", name)))

(* locate_annotation_method: the one method of the class named replace     *)
(* whose short name is name.                                               *)
locate_annotation_method(self, replace, name) ==
    IF replace \notin self.types THEN Err(self, CompileError("UnresolvedType", replace))
    ELSE IF replace \notin DOMAIN self.repo.types THEN Panic(self)
    ELSE IF self.repo.types[replace].k # "Class"
    THEN Err(self, CompileError("UnresolvedType", replace))
    ELSE Then(FuncMap_by_name(self.repo.types[replace].methods, name),
              LAMBDA found :
         IF Len(found) = 1 THEN Ok(self, <<found[1]>>)
         ELSE Err(self, CompileError("UnresolvedFunction", name)))

(* preprocess_entry for a class or a struct. *)
PreprocessClass(self, class) ==
    LET is_struct == class.k = "Struct"
        extends == IF class.base # <<>> THEN class.base
                   ELSE IF ~is_struct THEN <<Type_Data(predef_ISCRIPTABLE, <<>>)>>
                   ELSE <<>>
        flags == [get_class_flags(class.qualifiers) EXCEPT !.is_struct = is_struct]
        this == Type_Data(class.name, [i \in 1..Len(class.tparams) |-> Type_Var])
    IN Then(PreprocessMembers(class.members,
                [data_type |-> ClassType_declared(class.tparams, extends, flags),
                 methods |-> <<>>, reporter |-> self.reporter]),
            LAMBDA acc :
       Ok([self EXCEPT !.repo = TypeRepo_add_type(@, class.name, acc.data_type),
                       !.defined_types = Append(@, class.name),
                       !.reporter = acc.reporter],
          <<ModuleItem_Class(this, acc.methods)>>))

(* An annotated method: the item of a body for the method at index. *)
AnnotatedItem(self, func, ident, index, kind) ==
    IF CompileBody_new(func, index, FALSE) = <<>>
    THEN Err(self, CompileError("AnnotatedFuncWithNoBody", func.name))
    ELSE Ok(self, <<ModuleItem_AnnotatedMethod(Type_Data(ident, <<>>),
                                               CompileBody_new(func, index, FALSE)[1],
                                               kind)>>)

(* preprocess_entry for a function: its first annotation decides. *)
PreprocessFunction(self, func) ==
    LET flags == get_function_flags(func.qualifiers)
        typ == preprocess_function(func)
        ann == func.annotations[1]
        ident == ann.args[1]
    IN IF func.annotations = <<>>
       THEN Then(FuncMap_add(self.repo.globals, func.name, typ, flags),
                 LAMBDA added :
            Ok([self EXCEPT !.repo.globals = added.map],
               IF func.body = <<>> THEN <<>>
               ELSE <<ModuleItem_Global(CompileBody_new(func, added.index, TRUE)[1])>>))
       ELSE IF ann.kind \in {"ReplaceMethod", "WrapMethod"} /\ Len(ann.args) = 1
       THEN Then(locate_annotation_method(self, ident, func.name),
                 LAMBDA found :
            IF found.res # "Ok" THEN found
            ELSE AnnotatedItem(self, func, ident, found.item[1],
                               IF ann.kind = "ReplaceMethod" THEN "Replace" ELSE "Wrap"))
       ELSE IF ann.kind = "AddMethod" /\ Len(ann.args) = 1
       THEN IF ident \notin self.types
            THEN Err(self, CompileError("UnresolvedType", ident))
            ELSE IF ident \notin DOMAIN self.repo.types THEN Panic(self)
            ELSE IF self.repo.types[ident].k # "Class"
            THEN Err(self, CompileError("UnresolvedType", ident))
            ELSE Then(self.repo.types[ident], LAMBDA ct :
                 Then(FuncMap_add(IF flags.is_static THEN ct.statics ELSE ct.methods,
                                  func.name, typ, flags),
                      LAMBDA added :
                 AnnotatedItem(
                     IF flags.is_static
                     THEN [self EXCEPT !.repo.types[ident].statics = added.map]
                     ELSE [self EXCEPT !.repo.types[ident].methods = added.map],
                     func, ident, added.index, "Add")))
       ELSE IF ann.kind = "ReplaceGlobal" /\ ann.args = <<>>
       THEN Then(FuncMap_by_name(self.repo.globals, func.name),
                 LAMBDA found :
            IF Len(found) # 1 THEN Err(self, CompileError("UnresolvedFunction", func.name))
            ELSE IF func.body = <<>>
            THEN Err(self, CompileError("AnnotatedFuncWithNoBody", func.name))
            ELSE Ok(self, <<ModuleItem_Global(CompileBody_new(func, found[1], TRUE)[1])>>))
       ELSE IF ann.kind = "If" /\ Len(ann.args) = 1
       THEN Panic(self)
       ELSE Err(self, CompileError("InvalidAnnotation", func.name))

(* preprocess_entry for a top-level let. *)
PreprocessGlobalLet(self, field) ==
    LET found == SelectSeq(field.annotations, LAMBDA ann : ann.kind = "AddField")
        ident == found[1].args[1]
    IN IF found = <<>> THEN Err(self, CompileError("GlobalLetBinding", field.name))
       ELSE IF Len(found[1].args) # 1
       THEN Err(self, CompileError("InvalidAnnotation", field.name))
       ELSE IF ident \notin self.types
       THEN Err(self, CompileError("UnresolvedType", ident))
       ELSE IF ident \notin DOMAIN self.repo.types THEN Panic(self)
       ELSE IF self.repo.types[ident].k # "Class"
       THEN Err(self, CompileError("UnresolvedType", ident))
       ELSE Ok([self EXCEPT !.repo.types[ident].fields =
                                FieldMap_add(@, field.name, field.type_)],
               <<>>)

preprocess_entry(self, entry) ==
    CASE entry.k \in {"Class", "Struct"} -> PreprocessClass(self, entry)
      [] entry.k = "Function" -> PreprocessFunction(self, entry)
      [] entry.k = "GlobalLet" -> PreprocessGlobalLet(self, entry)

(* compile_module: the entries in order; an error is reported and the      *)
(* entry gives no item.  acc is the compiler and the items so far.         *)
RECURSIVE CompileEntries(_, _)
CompileEntries(entries, acc) ==
    IF entries = <<>> \/ acc.res = "Panic" THEN acc
    ELSE CompileEntries(Tail(entries),
        Then(preprocess_entry(acc.self, Head(entries)), LAMBDA r :
        IF r.res = "Panic" THEN Panic(r.self)
        ELSE IF r.res = "Err"
        THEN Ok([r.self EXCEPT !.reporter = ErrorReporter_report(@, r.error)], acc.item)
        ELSE Ok(r.self, acc.item \o r.item)))

Compiler_compile_module(self, module) ==
    Then(CompileEntries(module.entries, Ok(self, <<>>)), LAMBDA r :
    IF r.res = "Panic" THEN r
    ELSE Ok([r.self EXCEPT !.compile_queue = Append(@, [items |-> r.item])], <<>>))

(* Pass 3, Compiler::process_inheritance (compiler.rs 665-755). *)

(* The methods of the ancestors of owner that a method of owner named name *)
(* and typed typ can have as its base.                                     *)
BaseCandidates(owner, name, this, typ, repo) ==
    LET uppers == Tail(TypeRepo_upper_iter(repo, owner))
        Matches(id, index) ==
            LET e == repo.types[id].methods[index + 1]
                base == Data_instantiate_as(this, id, repo)
                env == TypeVarsOf(repo, id, base.args)
            IN /\ Len(e.typ.params) = Len(typ.params)
               /\ ~e.flags.is_final
               /\ \A i \in 1..Len(typ.params) :
                     InferType_is_same_shape(
                         InferType_from_type_with(e.typ.params[i].typ, env),
                         typ.params[i].typ)
    IN {mid \in UNION {{MethodId_new(uppers[u], index) :
                            index \in Range(FuncMap_by_name(repo.types[uppers[u]].methods,
                                                            name))} :
                       u \in DOMAIN uppers} :
           Matches(mid[1], mid[2])}

(* get_base_method: the one candidate, none when there is none; more than  *)
(* one candidate fails the expect.                                         *)
get_base_method(owner, name, this, typ, repo) ==
    Then(BaseCandidates(owner, name, this, typ, repo), LAMBDA found :
    IF Cardinality(found) > 1 THEN [res |-> "Panic"]
    ELSE [res |-> "Ok", base |-> IF found = {} THEN <<>> ELSE <<CHOOSE mid \in found : TRUE>>])

(* The first loop, over the pending bodies funcs of one class item: acc is *)
(* method_to_base so far, or a panic.                                      *)
RECURSIVE ResolveBases(_, _, _, _)
ResolveBases(funcs, this, repo, acc) ==
    IF funcs = <<>> \/ acc.res = "Panic" THEN acc
    ELSE ResolveBases(Tail(funcs), this, repo,
        Then(Head(funcs), LAMBDA func :
        IF func.is_static THEN acc
        ELSE Then(get_base_method(
                      this.id, func.name, this,
                      TypeRepo_get_method_with_signature(
                          repo, MethodId_new(this.id, func.index)).typ,
                      repo),
                  LAMBDA r :
             IF r.res = "Panic" THEN [acc EXCEPT !.res = "Panic"]
             ELSE IF r.base = <<>> THEN acc
             ELSE [acc EXCEPT !.method_to_base =
                       MapPut(@, MethodId_new(this.id, func.index), r.base[1])])))

(* The first loop, over the class items of the compile queue. *)
RECURSIVE ResolveItems(_, _, _)
ResolveItems(items, repo, acc) ==
    IF items = <<>> \/ acc.res = "Panic" THEN acc
    ELSE ResolveItems(Tail(items), repo,
        Then(Head(items), LAMBDA item :
        IF item.k # "Class" THEN acc
        ELSE IF repo.types[item.this.id].extends = <<>> THEN acc
        ELSE IF repo.types[repo.types[item.this.id].extends[1]].k # "Class" THEN acc
        ELSE Then(repo.types[repo.types[item.this.id].extends[1]], LAMBDA base :
             ResolveBases(item.funcs, item.this, repo,
                 IF base.span /\ base.flags.is_final
                 THEN [acc EXCEPT !.reporter = ErrorReporter_report(
                                      @, CompileError("ExtendingFinalClass", item.this.id))]
                 ELSE acc))))

(* The items of every module of the compile queue, in order. *)
RECURSIVE AllItems(_)
AllItems(compile_queue) ==
    IF compile_queue = <<>> THEN <<>>
    ELSE Head(compile_queue).items \o AllItems(Tail(compile_queue))

(* defined_types sorted by the number of types each extends, itself       *)
(* counted; the sort is stable.                                            *)
RECURSIVE SortByDepth(_, _)
SortByDepth(defined_types, repo) ==
    IF defined_types = <<>> THEN <<>>
    ELSE LET key(typ) == Len(TypeRepo_upper_iter(repo, typ))
             rest == SortByDepth(Tail(defined_types), repo)
         IN SelectSeq(rest, LAMBDA x : key(x) < key(Head(defined_types)))
            \o <<Head(defined_types)>>
            \o SelectSeq(rest, LAMBDA x : key(x) >= key(Head(defined_types)))

(* Whether a method has an implementation. *)
Func_is_implemented(function) == function.flags.has_body

(* The second loop for the class typ without the set of its base. *)
ThisUnimplemented_OwnOnly(typ, repo, method_to_base, unimplemented) ==
    LET class == repo.types[typ]
        mids == {MethodId_new(typ, i - 1) : i \in DOMAIN class.methods}
        own == {mid \in mids : ~Func_is_implemented(class.methods[mid[2] + 1])}
        overridden == {method_to_base[mid] :
                          mid \in (mids \ own) \cap DOMAIN method_to_base}
    IN own \ overridden

(* The second loop for the class typ: the set of its base, with its own    *)
(* methods that are not implemented and without the bases of those that    *)
(* are.                                                                    *)
ThisUnimplemented(typ, repo, method_to_base, unimplemented) ==
    LET class == repo.types[typ]
        inherited == IF class.extends # <<>>
                        /\ class.extends[1] \in DOMAIN unimplemented
                     THEN unimplemented[class.extends[1]] ELSE {}
        mids == {MethodId_new(typ, i - 1) : i \in DOMAIN class.methods}
        own == {mid \in mids : ~Func_is_implemented(class.methods[mid[2] + 1])}
        overridden == {method_to_base[mid] :
                          mid \in (mids \ own) \cap DOMAIN method_to_base}
    IN (inherited \cup own) \ overridden

(* The second loop: the unimplemented set of every class of defined_types, *)
(* each taken after the classes before it.                                 *)
RECURSIVE UnimplementedSets(_, _, _, _)
UnimplementedSets(defined_types, repo, method_to_base, unimplemented) ==
    IF defined_types = <<>> THEN unimplemented
    ELSE UnimplementedSets(Tail(defined_types), repo, method_to_base,
        Then(Head(defined_types), LAMBDA typ :
        IF repo.types[typ].k # "Class" THEN unimplemented
        ELSE MapPut(unimplemented, typ,
                    ThisUnimplemented(typ, repo, method_to_base, unimplemented))))

(* The errors the second loop can report, in the orders in which the hash  *)
(* sets can be iterated.                                                   *)
RECURSIVE UnimplementedReports(_, _, _)
UnimplementedReports(defined_types, repo, unimplemented) ==
    IF defined_types = <<>> THEN {<<>>}
    ELSE LET typ == Head(defined_types)
             rest == UnimplementedReports(Tail(defined_types), repo, unimplemented)
             Error(mid) ==
                 [kind |-> "UnimplementedMethod",
                  name |-> FuncSignature_name(
                               TypeRepo_get_method_with_signature(repo, mid).signature),
                  at |-> typ]
         IN IF repo.types[typ].k = "Class" /\ ~repo.types[typ].flags.is_abstract
            THEN {[i \in DOMAIN order |-> Error(order[i])] \o r :
                     order \in IterationOrders(unimplemented[typ]), r \in rest}
            ELSE rest

(* The third loop without the promotion of the return type. *)
Promote_KeepRet(repo, method_to_base, mid) ==
    LET RECURSIVE RootOf(_)
        RootOf(id) == IF id \in DOMAIN method_to_base THEN RootOf(method_to_base[id])
                      ELSE id
        root == RootOf(method_to_base[mid])
        base == TypeRepo_get_method_with_signature(repo, root)
        method == TypeRepo_get_method_with_signature(repo, mid)
    IN [repo EXCEPT !.types[mid[1]].methods[mid[2] + 1] =
           [method EXCEPT
               !.base = <<method_to_base[mid]>>,
               !.typ.params =
                   [i \in DOMAIN method.typ.params |->
                       IF /\ i <= Len(base.typ.params)
                          /\ base.typ.params[i].typ.k = "Var"
                          /\ method.typ.params[i].typ.k # "Var"
                       THEN [method.typ.params[i] EXCEPT !.is_poly = TRUE]
                       ELSE method.typ.params[i]]]]

(* The third loop, for one entry of method_to_base. *)
Promote(repo, method_to_base, mid) ==
    LET RECURSIVE RootOf(_)
        RootOf(id) == IF id \in DOMAIN method_to_base THEN RootOf(method_to_base[id])
                      ELSE id
        root == RootOf(method_to_base[mid])
        base == TypeRepo_get_method_with_signature(repo, root)
        method == TypeRepo_get_method_with_signature(repo, mid)
    IN [repo EXCEPT !.types[mid[1]].methods[mid[2] + 1] =
           [method EXCEPT
               !.typ.is_ret_poly = base.typ.ret.k = "Var" /\ method.typ.ret.k # "Var",
               !.base = <<method_to_base[mid]>>,
               !.typ.params =
                   [i \in DOMAIN method.typ.params |->
                       IF /\ i <= Len(base.typ.params)
                          /\ base.typ.params[i].typ.k = "Var"
                          /\ method.typ.params[i].typ.k # "Var"
                       THEN [method.typ.params[i] EXCEPT !.is_poly = TRUE]
                       ELSE method.typ.params[i]]]]

RECURSIVE PromoteAll(_, _, _)
PromoteAll(repo, method_to_base, order) ==
    IF order = <<>> THEN repo
    ELSE PromoteAll(Promote(repo, method_to_base, Head(order)), method_to_base, Tail(order))

(* process_queue (compiler.rs 488-585): the code generation items of the   *)
(* module items, in order; the typing of a body is left out.  The unwrap   *)
(* of a method that the repository does not hold fails.                    *)
RepoHolds(repo, mid, is_static) ==
    /\ mid[1] \in DOMAIN repo.types
    /\ repo.types[mid[1]].k = "Class"
    /\ mid[2] < Len(IF is_static THEN repo.types[mid[1]].statics
                    ELSE repo.types[mid[1]].methods)

ItemsOf(item) ==
    CASE item.k = "Class" ->
            [i \in DOMAIN item.funcs |->
                CodeGenItem("AssembleMethod",
                            MethodId_new(item.this.id, item.funcs[i].index),
                            item.funcs[i].body, item.funcs[i].is_static)]
      [] item.k = "Global" ->
            <<CodeGenItem("AssembleGlobal", MethodId_new("", item.body.index),
                          item.body.body, TRUE)>>
      [] item.k = "AnnotatedMethod" ->
            <<CodeGenItem(CASE item.kind = "Add" -> "AddMethod"
                            [] item.kind = "Replace" -> "AssembleMethod"
                            [] item.kind = "Wrap" -> "WrapMethod",
                          MethodId_new(item.this.id, item.body.index),
                          item.body.body, item.body.is_static)>>

RECURSIVE ProcessItems(_, _, _)
ProcessItems(items, repo, acc) ==
    IF items = <<>> \/ acc.res = "Panic" THEN acc
    ELSE ProcessItems(Tail(items), repo,
        Then(ItemsOf(Head(items)), LAMBDA made :
        IF \A i \in DOMAIN made :
              made[i].k = "AssembleGlobal" \/ RepoHolds(repo, made[i].mid, made[i].is_static)
        THEN [acc EXCEPT !.items = @ \o made]
        ELSE [acc EXCEPT !.res = "Panic"]))

Compiler_process_queue(self) ==
    ProcessItems(AllItems(self.compile_queue), self.repo, [res |-> "Ok", items |-> <<>>])

----------------------------------------------------------------------------
(* Compilation runs.  The sources are compiled against the repository of   *)
(* the loaded pool, whose class C has the one method M, and the outputs    *)
(* are committed to that pool.  Two families of sources: classes A, B      *)
(* extends A and D extends B that declare a method m, and top-level        *)
(* entries annotated for the class C.                                      *)

Int32 == Type_Prim("Int32")

(* The repository that CompilationResources::load makes of the loaded pool. *)
LoadedRepo ==
    [types |->
        [id \in DOMAIN TypeRepo |->
            IF id = "C"
            THEN ClassType_loaded(
                     <<>>,
                     <<FuncEntry(<<"M">>, FuncType(Int32Params, Prim_Void),
                                 [get_function_flags({}) EXCEPT !.has_body = TRUE],
                                 <<>>)>>)
            ELSE IF id = predef_ISCRIPTABLE THEN ClassType_loaded(<<>>, <<>>)
            ELSE TypeRepo[id]],
     globals |-> <<>>]

MethodShapes == {"plain0", "plain1", "generic", "genret"}

IsGeneric(shape) == shape \in {"generic", "genret"}

(* The parameters of m in A, and in B and D, for a shape. *)
AParams(shape) ==
    CASE shape = "plain1" -> <<Int32>> [] shape = "generic" -> <<Type_Var>> [] OTHER -> <<>>
BParams(shape) == IF shape \in {"plain1", "generic"} THEN <<Int32>> ELSE <<>>

ClassQualifiers(name, abstracts) == IF name \in abstracts THEN {"abstract"} ELSE {}

ClassA(p) ==
    ClassSource("Class", "A", IF IsGeneric(p.shape) THEN <<"T">> ELSE <<>>, <<>>,
                ClassQualifiers("A", p.abstracts),
                <<MemberSource_Method(
                      "m", IF p.a = "final" THEN {"final"} ELSE {}, AParams(p.shape),
                      <<IF IsGeneric(p.shape) THEN Type_Var ELSE Int32>>,
                      IF p.a = "bodyless" THEN <<>> ELSE <<1>>)>>)

ClassB(p) ==
    ClassSource("Class", "B", <<>>,
                <<Type_Data("A", IF IsGeneric(p.shape) THEN <<Int32>> ELSE <<>>)>>,
                ClassQualifiers("B", p.abstracts),
                CASE p.b = "none" -> <<>>
                  [] p.b = "same" ->
                        <<MemberSource_Method("m", {}, BParams(p.shape), <<Int32>>, <<2>>)>>
                  [] p.b = "final" ->
                        <<MemberSource_Method("m", {"final"}, BParams(p.shape), <<Int32>>,
                                              <<2>>)>>
                  [] p.b = "other" ->
                        <<MemberSource_Method("m", {}, BParams(p.shape) \o <<Int32>>,
                                              <<Int32>>, <<2>>)>>
                  [] p.b = "static" ->
                        <<MemberSource_Method("m", {"static"}, BParams(p.shape),
                                              <<Int32>>, <<2>>)>>
                  [] p.b = "bodyless" ->
                        <<MemberSource_Method("m", {}, BParams(p.shape), <<Int32>>, <<>>)>>)

ClassD(p) ==
    ClassSource("Class", "D", <<>>, <<Type_Data("B", <<>>)>>, {},
                IF p.d = "same"
                THEN <<MemberSource_Method("m", {}, BParams(p.shape), <<Int32>>, <<3>>)>>
                ELSE <<>>)

InheritanceParams ==
    [shape : MethodShapes, a : {"open", "final", "bodyless"},
     b : {"none", "same", "final", "other", "static", "bodyless"},
     d : {"absent", "empty", "same"},
     abstracts : {{}, {"A"}, {"A", "B"}}, order : {"declared", "reversed"}]

InheritanceModule(p) ==
    LET classes == <<ClassA(p), ClassB(p)>> \o (IF p.d = "absent" THEN <<>> ELSE <<ClassD(p)>>)
    IN IF p.order = "declared" THEN classes
       ELSE [i \in DOMAIN classes |-> classes[Len(classes) + 1 - i]]

(* The entries of the annotation runs: functions annotated for C, a       *)
(* top-level let, a global, a struct, a class that extends C and a struct *)
(* declared with C as its base.                                            *)
Annotated(kind, name, qualifiers, parameters, body) ==
    FunctionSource(<<Annotation(kind, <<"C">>)>>, name, qualifiers, parameters, <<>>, body)

AnnotationEntries ==
    {Annotated("ReplaceMethod", "M", {}, <<Int32, Int32>>, <<4>>),
     Annotated("ReplaceMethod", "X", {}, <<>>, <<5>>),
     Annotated("ReplaceMethod", "N", {}, <<>>, <<6>>),
     Annotated("WrapMethod", "M", {}, <<Int32, Int32>>, <<7>>),
     Annotated("AddMethod", "N", {}, <<>>, <<8>>),
     Annotated("AddMethod", "N", {}, <<Int32>>, <<9>>),
     GlobalLet(<<Annotation("AddField", <<"C">>)>>, "counter", Int32),
     ClassSource("Struct", "S2", <<>>, <<>>, {},
                 <<MemberSource_Method("m", {}, <<>>, <<>>, <<10>>)>>),
     FunctionSource(<<>>, "G", {}, <<>>, <<>>, <<11>>),
     FunctionSource(<<Annotation("If", <<"cond">>)>>, "H", {}, <<>>, <<>>, <<12>>),
     ClassSource("Class", "E", <<>>, <<Type_Data("C", <<>>)>>, {},
                 <<MemberSource_Field("f", Int32),
                   MemberSource_Method("N", {}, <<>>, <<>>, <<13>>)>>),
     ClassSource("Struct", "S3", <<>>, <<Type_Data("C", <<>>)>>, {}, <<>>)}

MaxEntriesPerRun == 2    \* entries in the sources of an annotation run

(* A run of at most MaxEntriesPerRun entries, alone or behind the two      *)
(* declarations of N; a run wraps or replaces a method any number of times *)
(* and declares nothing twice.                                             *)
AnnotationRuns ==
    LET short == SeqsUpTo(AnnotationEntries, MaxEntriesPerRun)
        overloads == <<Annotated("AddMethod", "N", {}, <<>>, <<8>>),
                       Annotated("AddMethod", "N", {}, <<Int32>>, <<9>>)>>
        Adds(e) == e.k # "Function"
                       \/ e.annotations = <<>>
                       \/ e.annotations[1].kind = "AddMethod"
    IN {s \in short \cup {overloads \o r : r \in SeqsUpTo(AnnotationEntries, 1)} :
           \A i, j \in DOMAIN s : Adds(s[i]) /\ s[i] = s[j] => i = j}

(* The source files of a run: one file, or two of which either may fail to *)
(* parse.                                                                  *)
Programs ==
    {<<SourceFile(TRUE, InheritanceModule(p))>> : p \in InheritanceParams}
    \cup {<<SourceFile(TRUE, s)>> : s \in AnnotationRuns}
    \cup {<<SourceFile(ok[1], IF ok[1] THEN SubSeq(s, 1, 1) ELSE <<>>),
            SourceFile(ok[2], IF ok[2] THEN SubSeq(s, 2, Len(s)) ELSE <<>>)>> :
             s \in {r \in AnnotationRuns : Len(r) >= 2}, ok \in BOOLEAN \X BOOLEAN}

InitCompile ==
    /\ pc = "parse"
    /\ input \in Programs
    /\ pool = LoadedPool(FALSE)
    /\ unit = [Compiler_new(LoadedRepo) EXCEPT !.repo = LoadedRepo]
              @@ [codegen_queue |-> <<>>, method_to_base |-> EmptyMap,
                  unimplemented |-> EmptyMap]
    /\ hist = [mid |-> MethodId_new("C", 0),
               was_callback |-> FALSE,
               m |-> CompilationResources_load_db(pool).methods[MethodId_new("C", 0)],
               built |-> NoPool, before |-> NoPool,
               shims |-> EmptyMap, target |-> EmptyMap, placed |-> EmptyMap]
    /\ cache = CompilationResources_load_type_cache(pool)
    /\ db = CompilationResources_load_db(pool)
    /\ wrappers = EmptyMap
    /\ pos = 1
    /\ linked = {}
    /\ handed = {}
    /\ allocated = EmptyMap
    /\ output = NoBundle
    /\ pool2 = NoPool

(* What a pass of the front end leaves the emission state and the other    *)
(* variables as.                                                           *)
FrontEnd(phase, nextPos, compiler) ==
    /\ pc' = phase
    /\ pos' = nextPos
    /\ unit' = compiler
    /\ UNCHANGED <<pool, db, wrappers, linked, hist, codecVars, typeVars>>

(* parse_modules and try_collect: the first file that fails to parse ends  *)
(* the run with its error.                                                 *)
RunParse ==
    /\ pc = "parse"
    /\ IF \E i \in DOMAIN input : ~input[i].parses
       THEN FrontEnd("parse_error", 1, unit)
       ELSE FrontEnd("populate", 1, unit)

RECURSIVE PopulateEntries(_, _)
PopulateEntries(entries, self) ==
    IF entries = <<>> THEN self
    ELSE PopulateEntries(Tail(entries), populate_entry(self, Head(entries)))

RECURSIVE PopulateModules(_, _)
PopulateModules(modules, self) ==
    IF modules = <<>> THEN self
    ELSE PopulateModules(Tail(modules), PopulateEntries(Head(modules).entries, self))

RunPopulate ==
    /\ pc = "populate"
    /\ FrontEnd("compile", 1, PopulateModules(input, unit))

RunCompileModule ==
    /\ pc = "compile"
    /\ \E r \in {Compiler_compile_module(unit, input[pos])} :
          IF r.res = "Panic" THEN FrontEnd("panicked", pos, r.self)
          ELSE FrontEnd(IF pos = Len(input) THEN "inherit" ELSE "compile",
                        IF pos = Len(input) THEN 1 ELSE pos + 1, r.self)

RunProcessInheritance ==
    /\ pc = "inherit"
    /\ \E r \in {ResolveItems(AllItems(unit.compile_queue), unit.repo,
                              [res |-> "Ok", method_to_base |-> EmptyMap,
                               reporter |-> unit.reporter])} :
          IF r.res = "Panic" THEN FrontEnd("panicked", 1, unit)
          ELSE \E sorted \in {SortByDepth(unit.defined_types, unit.repo)} :
               \E sets \in {UnimplementedSets(sorted, unit.repo, r.method_to_base,
                                              EmptyMap)} :
               \E reports \in UnimplementedReports(sorted, unit.repo, sets),
                  order \in IterationOrders(DOMAIN r.method_to_base) :
                  FrontEnd("queue", 1,
                           [unit EXCEPT
                               !.defined_types = sorted,
                               !.reporter = r.reporter \o reports,
                               !.repo = PromoteAll(unit.repo, r.method_to_base, order),
                               !.method_to_base = r.method_to_base,
                               !.unimplemented = sets])

RunProcessQueue ==
    /\ pc = "queue"
    /\ \E r \in {Compiler_process_queue(unit)} :
          IF r.res = "Panic" THEN FrontEnd("panicked", 1, unit)
          ELSE FrontEnd("reserve", 1, [unit EXCEPT !.codegen_queue = r.items])

NextCompile ==
    \/ RunParse \/ RunPopulate \/ RunCompileModule \/ RunProcessInheritance
    \/ RunProcessQueue
    \/ NextCommit

SpecCompile == InitCompile /\ [][NextCompile]_vars

----------------------------------------------------------------------------
(* Claims about the front end.                                             *)

AfterPass3 == pc = "queue"

Declares(id) == id \in Range(unit.defined_types)

MethodOf(id, i) == unit.repo.types[id].methods[i]

(* Whether method j of the ancestor a has the short name, the parameter    *)
(* count and the parameter shapes of method i of class b.                  *)
SameNameAndShape(b, i, a, j) ==
    LET this == Type_Data(b, [n \in 1..Len(unit.repo.types[b].type_vars) |-> Type_Var])
        env == TypeVarsOf(unit.repo, a, Data_instantiate_as(this, a, unit.repo).args)
    IN /\ FuncSignature_name(MethodOf(b, i).signature)
              = FuncSignature_name(MethodOf(a, j).signature)
       /\ Len(MethodOf(b, i).typ.params) = Len(MethodOf(a, j).typ.params)
       /\ \A n \in DOMAIN MethodOf(b, i).typ.params :
             InferType_is_same_shape(
                 InferType_from_type_with(MethodOf(a, j).typ.params[n].typ, env),
                 MethodOf(b, i).typ.params[n].typ)

(* C12: after Pass 3, with B extends A, a non-static method of B that has  *)
(* the short name, the parameter count and the parameter shapes of a       *)
(* non-final method m of A has A.m as its base, and one that has them of   *)
(* final methods of A only has no base.                                    *)
C12_BaseLinked ==
    AfterPass3 /\ Declares("A") /\ Declares("B") =>
        \A i \in DOMAIN unit.repo.types["B"].methods :
            LET like == {j \in DOMAIN unit.repo.types["A"].methods :
                            SameNameAndShape("B", i, "A", j)}
                open == {j \in like : ~MethodOf("A", j).flags.is_final}
            IN /\ \A j \in open : MethodOf("B", i).base = <<MethodId_new("A", j - 1)>>
               /\ like # {} /\ open = {} => MethodOf("B", i).base = <<>>

PastPass3 == pc \in {"queue", "reserve", "build", "skeleton", "link", "codegen", "done"}

DeclaredMethods ==
    UNION {{MethodId_new(id, i - 1) : i \in DOMAIN unit.repo.types[id].methods} :
              id \in {t \in Range(unit.defined_types) : unit.repo.types[t].k = "Class"}}

Method(mid) == TypeRepo_get_method_with_signature(unit.repo, mid)

(* The root of the override chain of a method: the base of its base and so *)
(* on, up to a method without a base.                                      *)
RECURSIVE OverrideRoot(_)
OverrideRoot(mid) ==
    IF Method(mid).base = <<>> THEN mid ELSE OverrideRoot(Method(mid).base[1])

(* The name of the pool type at index idx. *)
TypeNameAt(idx) == ConstantPool_def_name(pool, idx)

(* The sources class A<T> { func m() -> T } and class B extends A<Int32>   *)
(* { func m() -> Int32 {...} }, in either order, D aside.                  *)
GenericOverride ==
    /\ \E i \in DOMAIN input[1].entries :
          /\ input[1].entries[i].k = "Class" /\ input[1].entries[i].name = "A"
          /\ input[1].entries[i].tparams = <<"T">>
          /\ input[1].entries[i].members[1].decl.parameters = <<>>
          /\ input[1].entries[i].members[1].decl.type_ = <<Type_Var>>
          /\ "final" \notin input[1].entries[i].members[1].decl.qualifiers
    /\ \E i \in DOMAIN input[1].entries :
          /\ input[1].entries[i].k = "Class" /\ input[1].entries[i].name = "B"
          /\ input[1].entries[i].base = <<Type_Data("A", <<Int32>>)>>
          /\ input[1].entries[i].members # <<>>
          /\ input[1].entries[i].members[1].decl.parameters = <<>>
          /\ input[1].entries[i].members[1].decl.type_ = <<Int32>>
          /\ input[1].entries[i].members[1].decl.qualifiers = {}
          /\ input[1].entries[i].members[1].decl.body # <<>>

(* C13: for class A<T> { func m() -> T } and class B extends A<Int32>      *)
(* { func m() -> Int32 {...} }, after Pass 3 the base of B.m is A.m and    *)
(* B.m is polymorphic in its return, and the function emitted for B.m      *)
(* returns the pool type ref:IScriptable; and for every declared method,   *)
(* the return, and each parameter, is marked polymorphic exactly when the  *)
(* method has a base, the root of its override chain has a type variable   *)
(* there and the method has not, and what is marked polymorphic is emitted *)
(* as ref:IScriptable.                                                     *)
C13_GenericPromotion ==
    /\ PastPass3 /\ GenericOverride =>
          /\ Method(MethodId_new("B", 0)).base = <<MethodId_new("A", 0)>>
          /\ Method(MethodId_new("B", 0)).typ.is_ret_poly
    /\ PastPass3 =>
          \A mid \in DeclaredMethods :
             LET method == Method(mid)
                 root == Method(OverrideRoot(mid))
             IN /\ method.typ.is_ret_poly <=>
                       /\ method.base # <<>>
                       /\ root.typ.ret.k = "Var"
                       /\ method.typ.ret.k # "Var"
                /\ \A n \in DOMAIN method.typ.params :
                      method.typ.params[n].is_poly <=>
                          /\ method.base # <<>>
                          /\ n <= Len(root.typ.params)
                          /\ root.typ.params[n].typ.k = "Var"
                          /\ method.typ.params[n].typ.k # "Var"
    /\ pc = "done" =>
          \A mid \in DeclaredMethods \cap DOMAIN db.methods :
             /\ Method(mid).typ.is_ret_poly =>
                   /\ FunctionAt(pool, db.methods[mid]).return_type # <<>>
                   /\ TypeNameAt(FunctionAt(pool, db.methods[mid]).return_type[1])
                          = <<"ref", ":", "IScriptable">>
             /\ \A n \in DOMAIN Method(mid).typ.params :
                   Method(mid).typ.params[n].is_poly =>
                       TypeNameAt(ConstantPool_definition(
                                      pool, FunctionAt(pool, db.methods[mid]).parameters[n])
                                  .value.type_)
                           = <<"ref", ":", "IScriptable">>

(* The sources of S6 were compiled and committed: B.m has a body, the base *)
(* A.m and a polymorphic return, and its function returns ref:IScriptable. *)
C13_Witness ==
    /\ pc = "done"
    /\ GenericOverride
    /\ Method(MethodId_new("B", 0)).base = <<MethodId_new("A", 0)>>
    /\ Method(MethodId_new("B", 0)).typ.is_ret_poly
    /\ Method(MethodId_new("B", 0)).flags.has_body
    /\ TypeNameAt(FunctionAt(pool, db.methods[MethodId_new("B", 0)]).return_type[1])
           = <<"ref", ":", "IScriptable">>
    /\ FunctionAt(pool, db.methods[MethodId_new("B", 0)]).base_method
           = <<db.methods[MethodId_new("A", 0)]>>

(* The sources whose only entry is @addField(C) let counter: Int32. *)
AddFieldOnly ==
    input = <<SourceFile(TRUE, <<GlobalLet(<<Annotation("AddField", <<"C">>)>>,
                                           "counter", Int32)>>)>>

(* The indexes of the Field definitions that the pool holds and the loaded *)
(* pool did not.                                                           *)
NewFields ==
    {i \in Len(LoadedPool(FALSE).definitions)..(Len(pool.definitions) - 1) :
        ConstantPool_definition(pool, i).value.tag = "Field"}

(* C14: compiling the one entry @addField(C) let counter: Int32 and        *)
(* committing adds one Field definition, whose parent is C and whose type  *)
(* is the Int32 of the cache, and appends its index to the fields of C.    *)
C14_FieldAdded ==
    pc = "done" /\ AddFieldOnly =>
        /\ Cardinality(NewFields) = 1
        /\ \A i \in NewFields :
              /\ ConstantPool_definition(pool, i).parent = db.classes["C"]
              /\ ConstantPool_definition(pool, i).value.type_ = cache[<<"Int32">>]
              /\ ConstantPool_definition(pool, db.classes["C"]).value.fields
                     = Append(ConstantPool_definition(LoadedPool(FALSE),
                                                      db.classes["C"]).value.fields, i)

(* The step of the second pass that writes an @replaceMethod body for a    *)
(* method of C.                                                            *)
ReplacesMethodOfC ==
    /\ pc = "codegen"
    /\ pc' # "panicked"
    /\ unit.codegen_queue[pos].k = "AssembleMethod"
    /\ MethodId_owner(unit.codegen_queue[pos].mid) = "C"

ReplacedIndex == db.methods[unit.codegen_queue[pos].mid]

StructCompiled ==
    /\ pc \in {"inherit", "queue", "reserve", "build", "skeleton", "link", "codegen", "done"}
    /\ "S2" \in Range(unit.defined_types)

(* C16: for struct S2 { func m() {} } one NonStaticStructMember error is   *)
(* reported, m is not among the methods of S2 in the repository, no body   *)
(* of S2 is pending, and the class definition emitted for S2 lists no      *)
(* method.                                                                 *)
C16_StructMemberSuppressed ==
    /\ StructCompiled =>
          /\ Cardinality({i \in DOMAIN unit.reporter :
                             unit.reporter[i] = CompileError("NonStaticStructMember", "m")})
                 = 1
          /\ FuncMap_by_name(unit.repo.types["S2"].methods, "m") = <<>>
          /\ \A i \in DOMAIN AllItems(unit.compile_queue) :
                LET item == AllItems(unit.compile_queue)[i]
                IN item.k = "Class" /\ item.this.id = "S2" => item.funcs = <<>>
    /\ StructCompiled /\ pc = "done" =>
          ConstantPool_definition(pool, db.classes["S2"]).value.methods = <<>>

(* The run is over: Compiler::run has returned the error of a file that    *)
(* did not parse.                                                          *)
ReturnedParseError == pc = "parse_error"

(* C17: when a file of several fails to parse, the run does not end before *)
(* the files that parse are preprocessed: a run that has returned has a    *)
(* module in the compile queue for each of them.                           *)
C17_OtherFilesCompiled ==
    ReturnedParseError /\ Len(input) > 1 =>
        Len(unit.compile_queue) = Cardinality({i \in DOMAIN input : input[i].parses})

(* The non-static methods with a pending body that more than one method of *)
(* their ancestors matches in name, parameter count and shape.             *)
AmbiguousMethods ==
    LET items == AllItems(unit.compile_queue)
    IN UNION {{MethodId_new(items[i].this.id, items[i].funcs[f].index) :
                  f \in {g \in DOMAIN items[i].funcs :
                            /\ ~items[i].funcs[g].is_static
                            /\ Cardinality(BaseCandidates(
                                   items[i].this.id, items[i].funcs[g].name, items[i].this,
                                   TypeRepo_get_method_with_signature(
                                       unit.repo,
                                       MethodId_new(items[i].this.id,
                                                    items[i].funcs[g].index)).typ,
                                   unit.repo)) > 1}} :
              i \in {n \in DOMAIN items : items[n].k = "Class"}}

(* C18: when Pass 3 meets a method that more than one non-final ancestor   *)
(* method matches, it does not fail: it goes on to its end and leaves the  *)
(* method without a base.                                                  *)
C18_AmbiguousBaseTolerated ==
    [][pc = "inherit" /\ AmbiguousMethods # {} =>
          /\ pc' = "queue"
          /\ \A mid \in AmbiguousMethods :
                TypeRepo_get_method_with_signature(unit'.repo, mid).base = <<>>
    ]_vars

DeclaredClasses == {t \in Range(unit.defined_types) : unit.repo.types[t].k = "Class"}

MethodsOfClassType(id) ==
    {MethodId_new(id, i - 1) : i \in DOMAIN unit.repo.types[id].methods}

(* The UnimplementedMethod errors reported for the class id. *)
UnimplementedErrors(id, name) ==
    {i \in DOMAIN unit.reporter :
        unit.reporter[i] = [kind |-> "UnimplementedMethod", name |-> name, at |-> id]}

PositionOf(id) == CHOOSE i \in DOMAIN unit.defined_types : unit.defined_types[i] = id

(* C19: after Pass 3 the unimplemented set of every declared class is the  *)
(* set of its declared base, with the class's own methods without a body   *)
(* and without the bases of the class's methods with a body; a class that  *)
(* is not abstract has one UnimplementedMethod error for each method of    *)
(* its set and an abstract class has none; and the base of a class comes   *)
(* before the class in the order in which the classes are taken.           *)
C19_Unimplemented ==
    PastPass3 =>
        \A id \in DeclaredClasses :
            LET class == unit.repo.types[id]
                parent == IF class.extends # <<>> /\ class.extends[1] \in DeclaredClasses
                          THEN unit.unimplemented[class.extends[1]] ELSE {}
                bodyless == {mid \in MethodsOfClassType(id) : ~Method(mid).flags.has_body}
                overridden == {Method(mid).base[1] :
                                  mid \in {m \in MethodsOfClassType(id) :
                                              Method(m).flags.has_body
                                              /\ Method(m).base # <<>>}}
            IN /\ id \in DOMAIN unit.unimplemented
               /\ unit.unimplemented[id] = (parent \cup bodyless) \ overridden
               /\ \A name \in {"m", "M", "N"} :
                     Cardinality(UnimplementedErrors(id, name))
                         = IF class.flags.is_abstract THEN 0
                           ELSE Cardinality({mid \in unit.unimplemented[id] :
                                    FuncSignature_name(Method(mid).signature) = name})
               /\ class.extends # <<>> /\ class.extends[1] \in DeclaredClasses =>
                     PositionOf(class.extends[1]) < PositionOf(id)

(* D was declared before B and B before A; B and D declare no m and are    *)
(* not abstract, the abstract A declares m without a body: A.m is in the   *)
(* sets of A, B and D, and B and D have an error each.                     *)
C19_Witness ==
    /\ pc = "queue"
    /\ Len(input[1].entries) = 3
    /\ input[1].entries[1].k = "Class" /\ input[1].entries[1].name = "D"
    /\ unit.defined_types = <<"A", "B", "D">>
    /\ unit.repo.types["A"].flags.is_abstract
    /\ ~unit.repo.types["B"].flags.is_abstract
    /\ unit.unimplemented["A"] = {MethodId_new("A", 0)}
    /\ unit.unimplemented["B"] = {MethodId_new("A", 0)}
    /\ unit.unimplemented["D"] = {MethodId_new("A", 0)}
    /\ UnimplementedErrors("A", "m") = {}
    /\ Cardinality(UnimplementedErrors("B", "m")) = 1
    /\ Cardinality(UnimplementedErrors("D", "m")) = 1

(* The entries of the source files, in the order Pass 2 takes them. *)
SourceEntries ==
    IF Len(input) = 1 THEN input[1].entries ELSE input[1].entries \o input[2].entries

AnnotatedWith(entry, kinds) ==
    /\ entry.k = "Function"
    /\ entry.annotations # <<>>
    /\ entry.annotations[1].kind \in kinds

(* The indexes of the methods of C that have the name of entry k when Pass *)
(* 2 reaches the entry: the loaded M at 0, and the method of each          *)
(* @addMethod(C) entry before it at the next free index.                   *)
MethodsNamedBefore(k) ==
    LET adds == {j \in 1..(k - 1) : AnnotatedWith(SourceEntries[j], {"AddMethod"})}
    IN (IF SourceEntries[k].name = "M" THEN {0} ELSE {})
       \cup {Cardinality({i \in adds : i < j}) + 1 :
                j \in {a \in adds : SourceEntries[a].name = SourceEntries[k].name}}

(* The @replaceMethod and @wrapMethod entries whose name is the name of no *)
(* method of C, or of several.                                             *)
UnresolvedEntries ==
    {k \in DOMAIN SourceEntries :
        /\ AnnotatedWith(SourceEntries[k], {"ReplaceMethod", "WrapMethod"})
        /\ Cardinality(MethodsNamedBefore(k)) # 1}

(* The entries that give a module item: all but the unresolved ones and    *)
(* the top-level lets.                                                     *)
ItemEntries ==
    {k \in DOMAIN SourceEntries : SourceEntries[k].k # "GlobalLet"} \ UnresolvedEntries

(* C20: when Pass 2 has taken every entry, the UnresolvedFunction errors   *)
(* are, in order, one per @replaceMethod(C) or @wrapMethod(C) function     *)
(* whose name matches no method of C or more than one, and they carry the  *)
(* function's name; such a function has no module item, every other entry  *)
(* but a top-level let has its item, in the order of the entries, and the  *)
(* item of a function whose name matches one method carries the index of   *)
(* that method, the function's body and the kind of its annotation.        *)
C20_AnnotatedLookup ==
    pc = "inherit" =>
        LET items == AllItems(unit.compile_queue)
            errors == SelectSeq(unit.reporter,
                                LAMBDA error : error.kind = "UnresolvedFunction")
            Rank(S, k) == Cardinality({j \in S : j <= k})
        IN /\ Len(errors) = Cardinality(UnresolvedEntries)
           /\ \A k \in UnresolvedEntries :
                 errors[Rank(UnresolvedEntries, k)].name = SourceEntries[k].name
           /\ Len(items) = Cardinality(ItemEntries)
           /\ \A k \in ItemEntries :
                 LET entry == SourceEntries[k]
                     item == items[Rank(ItemEntries, k)]
                 IN IF AnnotatedWith(entry, {"ReplaceMethod", "WrapMethod"})
                    THEN /\ item.k = "AnnotatedMethod"
                         /\ item.this = Type_Data("C", <<>>)
                         /\ item.kind = IF entry.annotations[1].kind = "ReplaceMethod"
                                        THEN "Replace" ELSE "Wrap"
                         /\ MethodsNamedBefore(k) = {item.body.index}
                         /\ item.body.body = entry.body[1]
                    ELSE IF AnnotatedWith(entry, {"AddMethod"})
                    THEN /\ item.k = "AnnotatedMethod"
                         /\ item.kind = "Add"
                         /\ item.body.body = entry.body[1]
                    ELSE IF entry.k = "Function"
                    THEN item.k = "Global" /\ item.body.body = entry.body[1]
                    ELSE item.k = "Class" /\ item.this.id = entry.name

(* Pass 2 took func N() and func N(Int32) added to C and then an           *)
(* @replaceMethod(C) func N: the name matches two methods, the error is    *)
(* reported and the two added methods have their items.                    *)
C20_Witness ==
    /\ pc = "inherit"
    /\ \E k \in UnresolvedEntries : Cardinality(MethodsNamedBefore(k)) = 2
    /\ Len(AllItems(unit.compile_queue)) = 2
    /\ \E i \in DOMAIN unit.reporter : unit.reporter[i].kind = "UnresolvedFunction"

----------------------------------------------------------------------------
(* C21: emission is deterministic.  At every round of the linkage loop the *)
(* pool, the cache, the database and the wrappers that the round leaves    *)
(* are the same whatever order the map of the copied locals is iterated    *)
(* in, so that two emissions of the same outputs on the same pool, cache   *)
(* and database give the same pool.                                        *)
C21_Deterministic ==
    pc = "link" =>
        \A mid \in (DOMAIN wrappers) \ linked :
            \A o1, o2 \in IterationOrders(RemapTargets(pool, db.methods[mid])) :
                Link(mid, Emission, o1) = Link(mid, Emission, o2)

(* The module that Pass 2 is about to take holds a function annotated with *)
(* @if(cond).                                                              *)
CompilesIfEntry ==
    /\ pc = "compile"
    /\ \E k \in DOMAIN input[pos].entries : AnnotatedWith(input[pos].entries[k], {"If"})

(* C22: Pass 2 over a module that holds an @if(cond) function ends with an *)
(* error reported for the function, and the compilation goes on: to the    *)
(* next module or to Pass 3, with the items of the module's other entries  *)
(* queued.                                                                 *)
C22_IfReported ==
    [][CompilesIfEntry =>
          /\ pc' \in {"compile", "inherit"}
          /\ \E i \in DOMAIN unit'.reporter : unit'.reporter[i].name = "H"
          /\ Len(unit'.compile_queue) = Len(unit.compile_queue) + 1
    ]_vars

----------------------------------------------------------------------------
(* C23: the names of the parameters of a committed function.  The class D  *)
(* of the sources declares M(arg0: Int32, arg1: Int32), which may override *)
(* the M(x, y) of the loaded class C and may be a callback.                *)

(* The name of parameter j of the function at index i of pool p. *)
ParamNameIn(p, i, j) == ConstantPool_def_name(p, FunctionAt(p, i).parameters[j])

(* The classes of the sources are built: hist.built is the pool that step  *)
(* 2 left and hist.m the index of the M of D in it.                        *)
BuiltDeclared ==
    /\ pc \in {"skeleton", "link", "codegen", "done"}
    /\ unit.defined_types = <<"D">>

(* C23: when the M of D is committed with a base and the callback flag,    *)
(* and the base has a parameter, its first parameter has the name of the   *)
(* first parameter of the base and every other parameter the name given to *)
(* its builder; with no base or no callback flag every parameter has the   *)
(* name given to its builder.                                              *)
C23_CallbackParamNames ==
    BuiltDeclared =>
        LET entry == unit.repo.types["D"].methods[1]
            F == FunctionAt(hist.built, hist.m)
            renamed == /\ entry.base # <<>>
                       /\ entry.flags.is_callback
                       /\ FunctionAt(hist.built, F.base_method[1]).parameters # <<>>
        IN /\ Len(F.parameters) = Len(entry.typ.params)
           /\ \A j \in DOMAIN F.parameters :
                 ParamNameIn(hist.built, hist.m, j)
                     = IF renamed /\ j = 1
                       THEN ParamNameIn(hist.built, F.base_method[1], 1)
                       ELSE names_param(j - 1)

----------------------------------------------------------------------------
(* The step of commit that builds a class of the sources. *)
BuildsClass ==
    /\ pc = "build"
    /\ unit.repo.types[unit.defined_types[pos]].k = "Class"

(* C24: the step that builds a defined class finds what it needs (the      *)
(* index of every base method is in db.methods) and leaves, at the index   *)
(* reserved for the class and for no other class, the definition of the    *)
(* class, whose base is the index of the class it extends; db.statics maps *)
(* the i-th static to methods[i] of the definition, db.methods the j-th    *)
(* method to methods[s + j] and db.fields the i-th field to fields[i].     *)
C24_TypesBuilt ==
    [][BuildsClass =>
          LET id == unit.defined_types[pos]
              class_type == unit.repo.types[id]
              idx == db.classes[id]
              class == ConstantPool_definition(pool', idx).value
              s == Len(class_type.statics)
          IN /\ \A j \in DOMAIN class_type.methods :
                    \/ class_type.methods[j].base = <<>>
                    \/ class_type.methods[j].base[1] \in DOMAIN db.methods
             /\ pc' # "panicked"
             /\ \A other \in (DOMAIN db.classes) \ {id} : db.classes[other] # idx
             /\ class.tag = "Class"
             /\ ConstantPool_def_name(pool', idx) = <<id>>
             /\ class_type.extends # <<>> /\ class_type.extends[1] \in DOMAIN db.classes =>
                    class.base = db.classes[class_type.extends[1]]
             /\ Len(class.methods) = s + Len(class_type.methods)
             /\ Len(class.fields) = Len(class_type.fields)
             /\ \A i \in 1..s : db'.statics[MethodId_new(id, i - 1)] = class.methods[i]
             /\ \A j \in DOMAIN class_type.methods :
                    db'.methods[MethodId_new(id, j - 1)] = class.methods[s + j]
             /\ \A i \in DOMAIN class_type.fields :
                    db'.fields[FieldId_new(id, i - 1)] = class.fields[i]
    ]_vars

----------------------------------------------------------------------------
(* The classes and structs that the sources declare. *)
DeclaredEntries ==
    {k \in DOMAIN SourceEntries : SourceEntries[k].k \in {"Class", "Struct"}}

(* C25: after Pass 2 a class of the repository that the sources declare as *)
(* a struct extends nothing, whatever base its declaration names, and a    *)
(* class declared without a base extends IScriptable.                      *)
C25_StructExtendsNothing ==
    pc = "inherit" =>
        \A k \in DeclaredEntries :
            LET entry == SourceEntries[k]
                class == unit.repo.types[entry.name]
            IN /\ class.flags.is_struct = (entry.k = "Struct")
               /\ entry.k = "Struct" => class.extends = <<>>
               /\ entry.k = "Class" /\ entry.base = <<>> =>
                      class.extends = <<predef_ISCRIPTABLE>>

----------------------------------------------------------------------------
(* The position in the queue of the item that gives M its new body. *)
AssemblePositions ==
    {i \in DOMAIN unit.codegen_queue :
        /\ unit.codegen_queue[i].k = "AssembleMethod"
        /\ unit.codegen_queue[i].mid = hist.mid}

(* The emission is over and M had both a new body and wrappers. *)
ReplacedAndWrapped == Wrapped /\ AssemblePositions # {}

(* C26: when M is given a new body and one or more wrappers, in either     *)
(* order of the queue, the slot that the innermost wrapper W(1) forwards   *)
(* to holds the new body of M after the commit, and the slot at M's        *)
(* external index holds the body of the last wrapper.                      *)
C26_ReplaceUnderWrappers ==
    ReplacedAndWrapped =>
        /\ BodiesAt(pool, hist.target[W(1)]) = AssemblePositions
        /\ BodiesAt(pool, hist.m) = {W(NumWrappers)}

----------------------------------------------------------------------------
(* The step of the second pass for an @addMethod item. *)
AddsMethodBody ==
    /\ pc = "codegen"
    /\ unit.codegen_queue[pos].k = "AddMethod"

(* The functions that the first pass created under the signature of the    *)
(* item at the running position of the queue.                              *)
CreatedForItem ==
    LET item == unit.codegen_queue[pos]
        entry == IF item.is_static
                 THEN TypeRepo_get_static_with_signature(unit.repo, item.mid)
                 ELSE TypeRepo_get_method_with_signature(unit.repo, item.mid)
    IN {i \in FunctionIndices(pool) \ FunctionIndices(hist.built) :
           ConstantPool_def_name(pool, i) = entry.signature}

(* C27: the step of the second pass for an @addMethod item, static or not, *)
(* does not fail; it writes the body and the locals of the item into the   *)
(* one function that the first pass created for the item, which is in the  *)
(* methods list of the target class, and changes no other function.        *)
C27_AddMethodBody ==
    [][AddsMethodBody =>
          /\ pc' # "panicked"
          /\ Cardinality(CreatedForItem) = 1
          /\ \A i \in CreatedForItem :
                /\ i \in Range(FunctionAt(pool,
                                   db.classes[MethodId_owner(unit.codegen_queue[pos].mid)]
                               ).methods)
                /\ BodiesAt(pool', i) = {unit.codegen_queue[pos].body}
                /\ FunctionAt(pool', i).locals # <<>>
                /\ \A l \in Range(FunctionAt(pool', i).locals) :
                      ConstantPool_definition(pool', l).parent = i
                /\ \A j \in FunctionIndices(pool) \ {i} :
                      ConstantPool_definition(pool', j) = ConstantPool_definition(pool, j)
    ]_vars

----------------------------------------------------------------------------
(* C28: after the commit every index that a function of the pool lists as  *)
(* a parameter is the index of a Parameter definition whose parent is the  *)
(* index of the function, the two functions that the linkage exchanged     *)
(* included.                                                               *)
C28_ParamsOwned ==
    pc = "done" =>
        \A i \in FunctionIndices(pool) :
            \A j \in DOMAIN FunctionAt(pool, i).parameters :
                LET param == ConstantPool_definition(pool, FunctionAt(pool, i).parameters[j])
                IN /\ param.value.tag = "Parameter"
                   /\ param.parent = i

----------------------------------------------------------------------------
(* Loaded types (compiler.rs 1144-1168).  CompilationResources::load reads *)
(* the type of every field, parameter and return of the pool with          *)
(* load_type; emission gives the types back to alloc_type.                 *)

PoolType_StaticArray(inner, size) ==
    [tag |-> "Type", kind |-> "StaticArray", inner |-> inner, size |-> size]

RECURSIVE CompilationDb_load_type(_, _)
CompilationDb_load_type(idx, p) ==
    LET type == ConstantPool_definition(p, idx).value
    IN CASE type.kind = "Prim" -> Type_Prim(ConstantPool_def_name(p, idx)[1])
         [] type.kind = "Class" ->
                Type_Data(get_type_id(ConstantPool_def_name(p, idx)), <<>>)
         [] type.kind = "Ref" -> CompilationDb_load_type(type.inner, p)
         [] type.kind = "WeakRef" ->
                Type_Data(predef_WREF, <<CompilationDb_load_type(type.inner, p)>>)
         [] type.kind = "ScriptRef" ->
                Type_Data(predef_SCRIPT_REF, <<CompilationDb_load_type(type.inner, p)>>)
         [] type.kind \in {"Array", "StaticArray"} ->
                Type_Data(predef_ARRAY, <<CompilationDb_load_type(type.inner, p)>>)

(* A loaded pool: the class C with the field f and the method F(p), the    *)
(* struct S, and the types Int32, C, ref:C, wref:C, array:Int32,           *)
(* array:ref:C, [2]Int32, S and script_ref:Int32 at the indices 6 to 14.   *)
TypedNames ==
    <<<<"None">>, <<"C">>, <<"S">>, <<"F">>, <<"p">>, <<"f">>, <<"Int32">>,
      <<"ref", ":", "C">>, <<"wref", ":", "C">>, <<"array", ":", "Int32">>,
      <<"array", ":", "ref", ":", "C">>, <<"[", "2", "]", "Int32">>,
      <<"script_ref", ":", "Int32">>>>

TypedDefinitions(param, field, ret) ==
    <<Definition_DEFAULT,
      Definition_class(1, PoolClass([is_struct |-> FALSE], UNDEFINED, <<3>>, <<5>>)),
      Definition_class(2, PoolClass([is_struct |-> TRUE], UNDEFINED, <<>>, <<>>)),
      Definition_function(3, 1,
          PoolFunction(FunctionFlags(FALSE, FALSE), ret, <<>>, <<4>>, <<>>, <<>>)),
      Definition_param(4, 3, PoolParameter(param)),
      Definition_field(5, 1, PoolField(field)),
      Definition_type_(6, PoolType_Prim),
      Definition_type_(1, PoolType_Class),
      Definition_type_(7, PoolType_Wrap("Ref", 7)),
      Definition_type_(8, PoolType_Wrap("WeakRef", 7)),
      Definition_type_(9, PoolType_Wrap("Array", 6)),
      Definition_type_(10, PoolType_Wrap("Array", 8)),
      Definition_type_(11, PoolType_StaticArray(6, 2)),
      Definition_type_(2, PoolType_Class),
      Definition_type_(12, PoolType_Wrap("ScriptRef", 6))>>

TypedPool(param, field, ret) ==
    ScriptBundle_load(ScriptBundle_save(
        [header |-> PredefHeader,
         pool |-> [definitions |-> TypedDefinitions(param, field, ret),
                   names |-> [strings |-> TypedNames, mappings |-> EmptyMap],
                   tweakdb_ids |-> Strings_default,
                   resources |-> Strings_default,
                   strings |-> Strings_default]])).pool

(* The types a field, a parameter or a return of the loaded pool has: a    *)
(* primitive, a reference, a weak reference, an array, a static array, a   *)
(* struct or a script reference.                                           *)
SignatureTypes == {6, 8, 9, 10, 11, 12, 13, 14}
ReturnTypes == {<<>>, <<8>>, <<12>>}

(* The type indices that the fields, the parameters and the returns of     *)
(* pool p refer to.                                                        *)
ReferencedTypes(p) ==
    LET defs == {ConstantPool_definition(p, i) : i \in 1..(Len(p.definitions) - 1)}
    IN {d.value.type_ : d \in {x \in defs : x.value.tag \in {"Field", "Parameter"}}}
       \cup {d.value.return_type[1] :
                d \in {x \in defs : x.value.tag = "Function" /\ x.value.return_type # <<>>}}

InitRetype ==
    /\ pc = "retype"
    /\ \E param \in SignatureTypes, field \in SignatureTypes, ret \in ReturnTypes :
          pool = TypedPool(param, field, ret)
    /\ cache = CompilationResources_load_type_cache(pool)
    /\ hist = [before |-> pool]
    /\ input = NoBundle
    /\ output = NoBundle
    /\ pool2 = NoPool
    /\ allocated = EmptyMap
    /\ handed = {}
    /\ unit = NoCommit /\ db = NoCommit /\ wrappers = EmptyMap
    /\ pos = 0 /\ linked = {}

(* A type of the loaded signature is read with load_type and given to      *)
(* alloc_type.                                                             *)
ReallocType ==
    /\ pc = "retype"
    /\ \E i \in ReferencedTypes(hist.before) \ DOMAIN allocated :
          \E r \in {TypeCache_alloc_type(cache, CompilationDb_load_type(i, hist.before),
                                         TypeRepo, pool)} :
             /\ pool' = r.pool
             /\ cache' = r.cache
             /\ allocated' = MapPut(allocated, i, r.idx)
             /\ handed' = handed \cup HandedBetween(pool, r.pool)
    /\ UNCHANGED <<pc, codecVars, commitVars>>

NextRetype == ReallocType

SpecRetype == InitRetype /\ [][NextRetype]_vars

(* C29: alloc_type of the type that load_type reads at a type index of the *)
(* loaded signature returns that index and adds no definition.             *)
C29_LoadedTypesReused ==
    pc = "retype" =>
        /\ \A i \in DOMAIN allocated : allocated[i] = i
        /\ pool = hist.before

----------------------------------------------------------------------------
(* C30: when add(s) on the names table returns the index i, get(i) on the  *)
(* table it left returns s, and i is the undefined index only when s is    *)
(* the default string "None"; the table may be newly constructed.          *)
C30_AddThenGet ==
    Called /\ hist.field = "names" =>
        /\ Strings_get(pool.names, hist.idx, CName_DEFAULT) = hist.str
        /\ hist.idx = UNDEFINED => hist.str = <<"None">>

====
